---- MODULE Spec2Model ----
(***************************************************************************)
(* A model of label-studio-schema: the XML attribute serializer            *)
(* (tools/convert.py, base.py), the XML formatter (tools/format.py) and    *)
(* the comment-to-schema generator (tools/parse.py).                       *)
(*                                                                         *)
(* Python strings are sequences of one-character strings, so that          *)
(* splitting, stripping, case conversion and formatting are computed the   *)
(* way the code computes them.                                             *)
(***************************************************************************)
EXTENDS Integers, Sequences, FiniteSets, TLC

VARIABLES
    xml_pc, model_dict, ignore, res, xml_ret,
    fmt_pc, xml_string, indent_size, fmt_ret,
    args_pc, args, str_args,
    main_pc, FILES, py_files, wi, written, read_log, calls, locals,
    camel_pc, camel_s, camel_ret

vars == <<xml_pc, model_dict, ignore, res, xml_ret,
          fmt_pc, xml_string, indent_size, fmt_ret,
          args_pc, args, str_args,
          main_pc, FILES, py_files, wi, written, read_log, calls, locals,
          camel_pc, camel_s, camel_ret>>

xml_vars == <<xml_pc, model_dict, ignore, res, xml_ret>>
fmt_vars == <<fmt_pc, xml_string, indent_size, fmt_ret>>
args_vars == <<args_pc, args, str_args>>
main_vars == <<main_pc, FILES, py_files, wi, written, read_log, calls, locals>>
camel_vars == <<camel_pc, camel_s, camel_ret>>

(***************************************************************************)
(* Bounds of the model.                                                    *)
(***************************************************************************)
MaxFields == 3
MaxTags == 4
MaxArgs == 2
MaxFiles == 2
MaxCalls == 2
MaxSegments == 3

(***************************************************************************)
(* Python str built-ins, on sequences of characters.                       *)
(***************************************************************************)
UpperLetters == <<"A","B","C","D","E","F","G","H","I","J","K","L","M","N","O","P","Q","R","S","T","U","V","W","X","Y","Z">>
LowerLetters == <<"a","b","c","d","e","f","g","h","i","j","k","l","m","n","o","p","q","r","s","t","u","v","w","x","y","z">>
Digits == <<"0","1","2","3","4","5","6","7","8","9">>
Whitespace == {" ", "\n", "\t", "\r"}

Range(s) == {s[i] : i \in 1..Len(s)}

IndexIn(c, s) == CHOOSE i \in 1..Len(s) : s[i] = c

LowerChar(c) == IF c \in Range(UpperLetters) THEN LowerLetters[IndexIn(c, UpperLetters)] ELSE c

UpperChar(c) == IF c \in Range(LowerLetters) THEN UpperLetters[IndexIn(c, LowerLetters)] ELSE c

str_lower(s) == IF s = <<>> THEN <<>> ELSE [i \in 1..Len(s) |-> LowerChar(s[i])]

str_upper(s) == IF s = <<>> THEN <<>> ELSE [i \in 1..Len(s) |-> UpperChar(s[i])]

str_capitalize(s) == IF s = <<>> THEN <<>> ELSE <<UpperChar(Head(s))>> \o str_lower(Tail(s))

Min(S) == CHOOSE x \in S : \A y \in S : x <= y

Max(S) == CHOOSE x \in S : \A y \in S : x >= y

\* The least index >= i where the character c occurs in s, or 0.
find_char(s, c, i) ==
    LET hits == {j \in i..Len(s) : s[j] = c}
    IN  IF hits = {} THEN 0 ELSE Min(hits)

\* The least index >= i where pat occurs in s, or 0.
find_sub(s, pat, i) ==
    LET hits == {j \in i..(Len(s) - Len(pat) + 1) : SubSeq(s, j, j + Len(pat) - 1) = pat}
    IN  IF hits = {} THEN 0 ELSE Min(hits)

\* str.split(sep) for a one-character separator: the pieces between the
\* occurrences of sep, empty pieces included.
str_split(s, sep) ==
    LET cuts == {j \in 1..Len(s) : s[j] = sep}
        nth(k) == IF k = 0 THEN 0
                  ELSE IF k > Cardinality(cuts) THEN Len(s) + 1
                  ELSE CHOOSE j \in cuts : Cardinality({q \in cuts : q <= j}) = k
    IN  [k \in 1..(Cardinality(cuts) + 1) |-> SubSeq(s, nth(k - 1) + 1, nth(k) - 1)]

RECURSIVE str_join(_, _)
str_join(sep, parts) ==
    IF parts = <<>> THEN <<>>
    ELSE IF Len(parts) = 1 THEN parts[1]
    ELSE parts[1] \o sep \o str_join(sep, Tail(parts))

lstrip_chars(s, chars) ==
    LET keep == {j \in 1..Len(s) : s[j] \notin chars}
    IN  IF keep = {} THEN <<>> ELSE SubSeq(s, Min(keep), Len(s))

rstrip_chars(s, chars) ==
    LET keep == {j \in 1..Len(s) : s[j] \notin chars}
    IN  IF keep = {} THEN <<>> ELSE SubSeq(s, 1, Max(keep))

str_strip_chars(s, chars) == rstrip_chars(lstrip_chars(s, chars), chars)

str_strip(s) == str_strip_chars(s, Whitespace)

str_endswith(s, suffix) ==
    Len(s) >= Len(suffix) /\ SubSeq(s, Len(s) - Len(suffix) + 1, Len(s)) = suffix

str_startswith(s, prefix) ==
    Len(s) >= Len(prefix) /\ SubSeq(s, 1, Len(prefix)) = prefix

str_replace(s, old, new) ==
    IF s = <<>> THEN <<>> ELSE [i \in 1..Len(s) |-> IF s[i] = old THEN new ELSE s[i]]

RECURSIVE int_to_str(_)
int_to_str(n) ==
    IF n < 10 THEN <<Digits[n + 1]>> ELSE int_to_str(n \div 10) \o <<Digits[(n % 10) + 1]>>

(***************************************************************************)
(* Python values: None, bool, str, int and float.  A float is held as a    *)
(* non-negative number of tenths, which str() prints with one decimal.     *)
(***************************************************************************)
PyNone == [t |-> "None"]
PyBool(b) == [t |-> "bool", v |-> b]
PyStr(s) == [t |-> "str", v |-> s]
PyInt(n) == [t |-> "int", v |-> n]
PyFloat(tenths) == [t |-> "float", v |-> tenths]
PyList(items) == [t |-> "list", v |-> items]
PyDict(items) == [t |-> "dict", v |-> items]

isinstance_bool(v) == v.t = "bool"

truthy(v) ==
    CASE v.t = "None" -> FALSE
      [] v.t = "bool" -> v.v
      [] v.t = "str" -> v.v # <<>>
      [] v.t = "int" -> v.v # 0
      [] v.t = "float" -> v.v # 0
      [] v.t = "list" -> v.v # <<>>
      [] v.t = "dict" -> v.v # <<>>

py_str(v) ==
    CASE v.t = "None" -> <<"N","o","n","e">>
      [] v.t = "bool" -> (IF v.v THEN <<"T","r","u","e">> ELSE <<"F","a","l","s","e">>)
      [] v.t = "str" -> v.v
      [] v.t = "int" -> int_to_str(v.v)
      [] v.t = "float" -> int_to_str(v.v \div 10) \o <<".">> \o int_to_str(v.v % 10)
      [] v.t = "list" /\ v.v = <<>> -> <<"[","]">>
      [] v.t = "dict" /\ v.v = <<>> -> <<"{","}">>

(***************************************************************************)
(* tools/convert.py                                                        *)
(***************************************************************************)
str_from_bool(value, lower) ==
    IF lower THEN str_lower(py_str(value)) ELSE str_upper(py_str(value))

RECURSIVE camel_parts(_, _)
camel_parts(words, n) ==
    IF words = <<>> THEN <<>>
    ELSE (IF n # 0 THEN str_capitalize(Head(words)) ELSE str_lower(Head(words)))
         \o camel_parts(Tail(words), n + 1)

\* Mutant: the enumeration starts at 1, so the first segment is capitalized too.
snake2camel_from_one(s) == camel_parts(str_split(s, "_"), 1)

\* Line 34.
snake2camel(s) == camel_parts(str_split(s, "_"), 0)

\* Mutant: the lookup in the ignore set is lost.
into_xml_keep_no_ignore(k, v, ign) ==
    v.t # "None" /\ (truthy(v) \/ isinstance_bool(v))

\* Mutant: booleans are no longer special-cased, so False is dropped.
into_xml_keep_truthy(k, v, ign) ==
    v.t # "None" /\ truthy(v) /\ k \notin ign

\* Mutant: only None is left out, so every other falsy value is emitted.
into_xml_keep_not_none(k, v, ign) ==
    v.t # "None" /\ k \notin ign

\* The condition of line 55.
into_xml_keep(k, v, ign) ==
    v.t # "None" /\ (truthy(v) \/ isinstance_bool(v)) /\ k \notin ign

\* Lines 56-58: the attribute string of one kept item.
into_xml_attr(k, v) ==
    snake2camel(k) \o <<"=","\"">>
    \o (IF isinstance_bool(v) THEN str_from_bool(v, TRUE) ELSE py_str(v))
    \o <<"\"">>

RECURSIVE into_xml_loop(_, _, _)
into_xml_loop(items, ign, acc) ==
    IF items = <<>> THEN acc
    ELSE LET k == items[1][1]
             v == items[1][2]
         IN  IF into_xml_keep(k, v, ign)
             THEN into_xml_loop(Tail(items), ign, Append(acc, into_xml_attr(k, v)))
             ELSE into_xml_loop(Tail(items), ign, acc)

into_xml(dict, ign) == into_xml_loop(dict, ign, <<>>)

(***************************************************************************)
(* base.py                                                                 *)
(***************************************************************************)
\* The parameters of into_xml (convert.py line 37); neither has a default.
into_xml_params == <<"model_dict", "ignore">>

\* A Python call of into_xml with positional arguments: a call that leaves a
\* parameter without a value raises TypeError before the body runs.
call_into_xml(positional) ==
    IF Len(positional) # Len(into_xml_params)
    THEN [exc |-> "TypeError", val |-> <<>>]
    ELSE [exc |-> "none", val |-> into_xml(positional[1], positional[2])]

\* The declared defaults of the fields used here (RectangleTag.opacity = 0.6).
field_default(k) == IF k = <<"o","p","a","c","i","t","y">> THEN PyFloat(6) ELSE [t |-> "required"]

RECURSIVE model_dump(_, _)
model_dump(self, exclude_defaults) ==
    IF self = <<>> THEN <<>>
    ELSE (IF exclude_defaults /\ self[1][2] = field_default(self[1][1])
          THEN <<>> ELSE <<self[1]>>)
         \o model_dump(Tail(self), exclude_defaults)

BaseTag_xml(class_name, self, no_defaults) ==
    LET call == call_into_xml(<<model_dump(self, no_defaults)>>)
    IN  IF call.exc # "none" THEN [exc |-> call.exc, val |-> <<>>]
        ELSE [exc |-> "none",
              val |-> <<"<">> \o class_name
                      \o (IF call.val # <<>> THEN <<" ">> \o str_join(<<" ">>, call.val) ELSE <<>>)
                      \o <<" ","/",">">>]

(***************************************************************************)
(* tools/format.py.  xml.dom.minidom is modelled for documents made of     *)
(* element tags only: <n>, </n> and <n/>.                                  *)
(***************************************************************************)
\* expat's tokens: kind, name and the 0-based offset of the token's "<".
RECURSIVE xml_tokens(_, _)
xml_tokens(s, i) ==
    IF i > Len(s) THEN <<>>
    ELSE LET j == find_char(s, ">", i)
             inner == SubSeq(s, i + 1, j - 1)
             tok == IF inner # <<>> /\ Head(inner) = "/"
                    THEN [kind |-> "close", name |-> Tail(inner), pos |-> i - 1]
                    ELSE IF inner # <<>> /\ inner[Len(inner)] = "/"
                    THEN [kind |-> "empty", name |-> SubSeq(inner, 1, Len(inner) - 1), pos |-> i - 1]
                    ELSE [kind |-> "open", name |-> inner, pos |-> i - 1]
         IN  <<tok>> \o xml_tokens(s, j + 1)

expat_error(message, column) ==
    [exc |-> "ExpatError",
     msg |-> message \o <<":"," ","l","i","n","e"," ","1",","," ","c","o","l","u","m","n"," ">> \o int_to_str(column),
     dom |-> <<>>]

\* Put a finished element under the innermost open element.
add_child(stack, node) ==
    [stack EXCEPT ![Len(stack)].children = Append(@, node)]

\* The parser's walk over the tokens: stack holds the open elements, root is
\* <<>> until the document element is closed and <<element>> afterwards.
RECURSIVE expat_parse(_, _, _, _)
expat_parse(toks, stack, root, length) ==
    IF toks = <<>>
    THEN IF root = <<>> THEN expat_error(<<"n","o"," ","e","l","e","m","e","n","t"," ","f","o","u","n","d">>, length)
         ELSE [exc |-> "none", msg |-> <<>>, dom |-> root]
    ELSE LET tk == Head(toks)
             node == [tag |-> tk.name, children |-> <<>>]
         IN  IF root # <<>>
             THEN IF tk.kind = "close"
                  THEN expat_error(<<"n","o","t"," ","w","e","l","l","-","f","o","r","m","e","d"," ","(","i","n","v","a","l","i","d"," ","t","o","k","e","n",")">>, tk.pos + 1)
                  ELSE expat_error(<<"j","u","n","k"," ","a","f","t","e","r"," ","d","o","c","u","m","e","n","t"," ","e","l","e","m","e","n","t">>, tk.pos)
             ELSE IF tk.kind = "open"
             THEN expat_parse(Tail(toks), Append(stack, node), root, length)
             ELSE IF tk.kind = "empty"
             THEN IF stack = <<>>
                  THEN expat_parse(Tail(toks), stack, <<node>>, length)
                  ELSE expat_parse(Tail(toks), add_child(stack, node), root, length)
             ELSE IF stack = <<>>
             THEN expat_error(<<"n","o","t"," ","w","e","l","l","-","f","o","r","m","e","d"," ","(","i","n","v","a","l","i","d"," ","t","o","k","e","n",")">>, tk.pos + 1)
             ELSE IF stack[Len(stack)].tag # tk.name
             THEN expat_error(<<"m","i","s","m","a","t","c","h","e","d"," ","t","a","g">>, tk.pos + 2)
             ELSE LET done == stack[Len(stack)]
                      rest == SubSeq(stack, 1, Len(stack) - 1)
                  IN  IF rest = <<>>
                      THEN expat_parse(Tail(toks), rest, <<done>>, length)
                      ELSE expat_parse(Tail(toks), add_child(rest, done), root, length)

\* xml.dom.minidom.parseString: a document, or ExpatError.
parseString(s) == expat_parse(xml_tokens(s, 1), <<>>, <<>>, Len(s))

RECURSIVE Element_writexml(_, _, _, _)
RECURSIVE write_nodes(_, _, _, _)
Element_writexml(node, indent, addindent, newl) ==
    indent \o <<"<">> \o node.tag
    \o (IF node.children # <<>>
        THEN <<">">> \o newl
             \o write_nodes(node.children, indent \o addindent, addindent, newl)
             \o indent \o <<"<","/">> \o node.tag \o <<">">> \o newl
        ELSE <<"/",">">> \o newl)

write_nodes(nodes, indent, addindent, newl) ==
    IF nodes = <<>> THEN <<>>
    ELSE Element_writexml(Head(nodes), indent, addindent, newl)
         \o write_nodes(Tail(nodes), indent, addindent, newl)

\* Document.toprettyxml(indent): the XML declaration, then the document element.
toprettyxml(dom, indent) ==
    <<"<","?","x","m","l"," ","v","e","r","s","i","o","n","=","\"","1",".","0","\""," ","?",">">> \o <<"\n">> \o write_nodes(dom, <<>>, indent, <<"\n">>)

\* str.splitlines for text whose only line boundary is "\n".
str_splitlines(s) ==
    LET parts == str_split(s, "\n")
    IN  IF parts[Len(parts)] = <<>> THEN SubSeq(parts, 1, Len(parts) - 1) ELSE parts

RECURSIVE stripped_nonempty(_)
stripped_nonempty(lines) ==
    IF lines = <<>> THEN <<>>
    ELSE (IF str_strip(Head(lines)) # <<>> THEN <<str_strip(Head(lines))>> ELSE <<>>)
         \o stripped_nonempty(Tail(lines))

\* Mutant: blank lines are dropped but the kept lines are not stripped.
RECURSIVE unstripped_nonempty(_)
unstripped_nonempty(lines) ==
    IF lines = <<>> THEN <<>>
    ELSE (IF str_strip(Head(lines)) # <<>> THEN <<Head(lines)>> ELSE <<>>)
         \o unstripped_nonempty(Tail(lines))

clean_lines_unstripped(s) == str_join(<<"\n">>, unstripped_nonempty(str_splitlines(s)))

\* Lines 5-20.
clean_lines(s) == str_join(<<"\n">>, stripped_nonempty(str_splitlines(s)))

RECURSIVE spaces(_)
spaces(n) == IF n = 0 THEN <<>> ELSE <<" ">> \o spaces(n - 1)

\* Mutant: the handler names an exception the parser does not raise.
format_xml_caught_other == {"ValueError"}

\* The except clause of line 46.
format_xml_caught == {"ExpatError"}

format_xml_string(xml, indent) ==
    LET parsed == parseString(xml)
    IN  IF parsed.exc = "none"
        THEN [exc |-> "none", val |-> clean_lines(toprettyxml(parsed.dom, spaces(indent)))]
        ELSE IF parsed.exc \in format_xml_caught
        THEN [exc |-> "none", val |-> <<"E","r","r","o","r"," ","p","a","r","s","i","n","g"," ","X","M","L",":"," ">> \o parsed.msg]
        ELSE [exc |-> parsed.exc, val |-> <<>>]

(***************************************************************************)
(* tools/parse.py: the type resolver and the field renderer.               *)
(***************************************************************************)
INDENT == spaces(4)

TYPE_CONVERT ==
    { <<<<"s","t","r","i","n","g">>, <<"s","t","r">>>>, <<<<"n","u","m","b","e","r">>, <<"i","n","t">>>>, <<<<"f","l","o","a","t">>, <<"f","l","o","a","t">>>>,
      <<<<"b","o","o","l","e","a","n">>, <<"b","o","o","l">>>>, <<<<"a","r","r","a","y">>, <<"l","i","s","t">>>>, <<<<"o","b","j","e","c","t">>, <<"d","i","c","t">>>>,
      <<<<"f","u","n","c","t","i","o","n">>, <<"C","a","l","l","a","b","l","e">>>>, <<<<"n","u","l","l">>, <<"N","o","n","e">>>> }

in_TYPE_CONVERT(t) == \E p \in TYPE_CONVERT : p[1] = t

TYPE_CONVERT_get(t, default) ==
    IF in_TYPE_CONVERT(t) THEN (CHOOSE p \in TYPE_CONVERT : p[1] = t)[2] ELSE default

\* Mutant: the mapped members come out in reverse order.
RECURSIVE map_types_reversed(_)
map_types_reversed(type_list) ==
    IF type_list = <<>> THEN <<>>
    ELSE map_types_reversed(Tail(type_list)) \o <<TYPE_CONVERT_get(Head(type_list), <<"s","t","r">>)>>

\* The list comprehension of line 58.
RECURSIVE map_types(_)
map_types(type_list) ==
    IF type_list = <<>> THEN <<>>
    ELSE <<TYPE_CONVERT_get(Head(type_list), <<"s","t","r">>)>> \o map_types(Tail(type_list))

RECURSIVE quote_each(_)
quote_each(type_list) ==
    IF type_list = <<>> THEN <<>>
    ELSE <<<<"\"">> \o Head(type_list) \o <<"\"">>>> \o quote_each(Tail(type_list))

all_known(type_list) == \A i \in 1..Len(type_list) : in_TYPE_CONVERT(type_list[i])

\* Mutant: an optional text default is quoted even when it is a placeholder.
coerce_default_quotes_all(arg_types, is_optional, arg_default) ==
    IF arg_types = <<"b","o","o","l">> /\ is_optional
    THEN PyBool(arg_default = PyStr(<<"t","r","u","e">>) /\ arg_default # PyStr(<<"f","a","l","s","e">>))
    ELSE IF arg_types = <<"s","t","r">> /\ is_optional
    THEN PyStr(<<"\"">> \o py_str(arg_default) \o <<"\"">>)
    ELSE arg_default

\* Lines 60-65: the boolean coercion and the quoting of an optional text default.
coerce_default(arg_types, is_optional, arg_default) ==
    IF arg_types = <<"b","o","o","l">> /\ is_optional
    THEN PyBool(arg_default = PyStr(<<"t","r","u","e">>) /\ arg_default # PyStr(<<"f","a","l","s","e">>))
    ELSE IF arg_types = <<"s","t","r">> /\ is_optional
    THEN (IF arg_default \notin {PyStr(<<".",".",".">>), PyStr(<<"N","o","n","e">>)}
          THEN PyStr(<<"\"">> \o py_str(arg_default) \o <<"\"">>)
          ELSE arg_default)
    ELSE arg_default

\* Mutant: a field counts as known as soon as one member is in the vocabulary.
convert_arg_types_any_known(type_list, is_optional, arg_default) ==
    LET joined == str_join(<<"|">>, map_types(type_list))
        d1 == coerce_default(joined, is_optional, arg_default)
    IN  IF ~(\E i \in 1..Len(type_list) : in_TYPE_CONVERT(type_list[i]))
        THEN << PyStr(<<"\"">> \o py_str(d1) \o <<"\"">>),
                (IF is_optional THEN <<"O","p","t","i","o","n","a","l","[">> ELSE <<>>) \o <<"L","i","t","e","r","a","l","[">>
                \o str_join(<<","," ">>, quote_each(type_list))
                \o <<"]">> \o (IF is_optional THEN <<"]">> ELSE <<>>) >>
        ELSE IF is_optional THEN << d1, <<"O","p","t","i","o","n","a","l","[">> \o joined \o <<"]">> >>
        ELSE << d1, joined >>

\* convert_arg_types returns (arg_default, arg_types); arg_default is a str, or
\* a bool after the coercion of line 61.
convert_arg_types(type_list, is_optional, arg_default) ==
    LET joined == str_join(<<"|">>, map_types(type_list))
        d1 == coerce_default(joined, is_optional, arg_default)
    IN  IF ~all_known(type_list)
        THEN << PyStr(<<"\"">> \o py_str(d1) \o <<"\"">>),
                (IF is_optional THEN <<"O","p","t","i","o","n","a","l","[">> ELSE <<>>) \o <<"L","i","t","e","r","a","l","[">>
                \o str_join(<<","," ">>, quote_each(type_list))
                \o <<"]">> \o (IF is_optional THEN <<"]">> ELSE <<>>) >>
        ELSE IF is_optional THEN << d1, <<"O","p","t","i","o","n","a","l","[">> \o joined \o <<"]">> >>
        ELSE << d1, joined >>

RECURSIVE strip_each(_, _)
strip_each(parts, chars) ==
    IF parts = <<>> THEN <<>>
    ELSE <<str_strip_chars(Head(parts), chars)>> \o strip_each(Tail(parts), chars)

\* Mutant: the "=" marker is looked for in the type slot.
is_opt_from_type(arg) == "=" \in Range(arg[1])

\* Line 102.
is_opt(arg) == "=" \in Range(arg[3])

\* Line 104.
arg_default_of(arg) ==
    IF arg[3] # <<>>
    THEN str_strip(str_strip_chars(arg[3], {"="}))
    ELSE (IF is_opt(arg) THEN <<"N","o","n","e">> ELSE <<".",".",".">>)

\* Mutant: the description keeps its double quotes.
arg_desc_of_unescaped(arg) ==
    LET desc0 == str_strip_chars(str_strip(arg[4]), {"-", " "})
    IN  IF str_endswith(desc0, <<".">>) THEN desc0 ELSE desc0 \o <<".">>

\* Lines 100-101.
arg_desc_of(arg) ==
    LET desc0 == str_replace(str_strip_chars(str_strip(arg[4]), {"-", " "}), "\"", "'")
    IN  IF str_endswith(desc0, <<".">>) THEN desc0 ELSE desc0 \o <<".">>

\* Lines 99-110: the rendered line of one (arg_type, arg_name, arg_default, arg_desc).
make_arg(arg) ==
    LET arg_type == arg[1]
        arg_name == str_strip(arg[2])
        arg_desc == arg_desc_of(arg)
        types == strip_each(str_split(arg_type, "|"), {"="})
        conv == convert_arg_types(types, is_opt(arg), PyStr(arg_default_of(arg)))
    IN  INDENT \o arg_name \o <<":"," ">> \o conv[2] \o <<" ","="," ","F","i","e","l","d","(">> \o py_str(conv[1])
        \o <<","," ","d","e","s","c","r","i","p","t","i","o","n","=","\"">> \o arg_desc \o <<"\"",")">>

\* Mutant: a later entry of the same name replaces the earlier one, as in a
\* mapping keyed by name.
RECURSIVE make_args_merged(_)
make_args_merged(arg_list) ==
    IF arg_list = <<>> THEN <<>>
    ELSE (IF \E i \in 2..Len(arg_list) : str_strip(arg_list[i][2]) = str_strip(arg_list[1][2])
          THEN <<>> ELSE <<make_arg(Head(arg_list))>>)
         \o make_args_merged(Tail(arg_list))

\* Lines 97-112.
RECURSIVE make_args(_)
make_args(arg_list) ==
    IF arg_list = <<>> THEN <<>>
    ELSE <<make_arg(Head(arg_list))>> \o make_args(Tail(arg_list))

(***************************************************************************)
(* tools/parse.py: the regular expressions, computed by scanning.          *)
(***************************************************************************)
Letters == Range(UpperLetters) \cup Range(LowerLetters)

\* [-a-zA-Z0-9|]
TypeChars == Letters \cup Range(Digits) \cup {"-", "|"}

\* \w
WordChars == Letters \cup Range(Digits) \cup {"_"}

\* [a-zA-Z-0-9.#:]
DefaultChars == Letters \cup Range(Digits) \cup {"-", ".", "#", ":"}

char_at(s, i) == IF i \in 1..Len(s) THEN s[i] ELSE "<end>"

\* The first index >= i whose character is not in class (a greedy run's end).
run_end(s, i, class) == Min({j \in i..(Len(s) + 1) : char_at(s, j) \notin class})

\* (.*) from index i: up to, not including, the next newline or the end.
rest_of_line(s, i) ==
    LET e == find_char(s, "\n", i)
    IN  IF e = 0 THEN SubSeq(s, i, Len(s)) ELSE SubSeq(s, i, e - 1)

\* Mutant: a greedy pattern, which runs to the last closing marker.
last_sub(s, pat, i) ==
    LET hits == {j \in i..(Len(s) - Len(pat) + 1) : SubSeq(s, j, j + Len(pat) - 1) = pat}
    IN  IF hits = {} THEN 0 ELSE Max(hits)

MULTILINE_COMMENT_search_greedy(text) ==
    LET open == find_sub(text, <<"/","*","*">>, 1)
        close == IF open = 0 THEN 0 ELSE last_sub(text, <<"*","/">>, open + 3)
    IN  IF open = 0 \/ close = 0 THEN [found |-> FALSE, group1 |-> <<>>]
        ELSE [found |-> TRUE, group1 |-> SubSeq(text, open + 3, close - 1)]

\* MULTILINE_COMMENT.search(text): group(1) of the first /** ... */, shortest.
MULTILINE_COMMENT_search(text) ==
    LET open == find_sub(text, <<"/","*","*">>, 1)
        close == IF open = 0 THEN 0 ELSE find_sub(text, <<"*","/">>, open + 3)
    IN  IF open = 0 \/ close = 0 THEN [found |-> FALSE, group1 |-> <<>>]
        ELSE [found |-> TRUE, group1 |-> SubSeq(text, open + 3, close - 1)]

\* A search for marker(.*): the first occurrence of the marker wins.
marker_search(marker, comment) ==
    LET at == find_sub(comment, marker, 1)
    IN  IF at = 0 THEN [found |-> FALSE, group0 |-> <<>>, group1 |-> <<>>]
        ELSE [found |-> TRUE,
              group0 |-> marker \o rest_of_line(comment, at + Len(marker)),
              group1 |-> rest_of_line(comment, at + Len(marker))]

TAG_META_TITLE_search(comment) == marker_search(<<"@","m","e","t","a","_","t","i","t","l","e">>, comment)

TAG_DESC_search(comment) == marker_search(<<"@","m","e","t","a","_","d","e","s","c","r","i","p","t","i","o","n">>, comment)

NoMatch == [found |-> FALSE, groups |-> <<>>, end |-> 0]

\* TAG_ARG_RGX tried at index i, part by part.  Every quantifier is greedy and
\* no later part can fail after \w+ has matched, so one scan from left to right
\* decides the match.  rest: \]?(.*)\n from d1, the end of the default.
arg_rgx_rest(s, t0, t2, n0, n1, d1, r0, e) ==
    IF e = 0 THEN NoMatch
    ELSE [found |-> TRUE,
          groups |-> << SubSeq(s, t0, t2 - 1), SubSeq(s, n0, n1 - 1),
                        SubSeq(s, n1, d1 - 1), SubSeq(s, r0, e - 1) >>,
          end |-> e + 1]

arg_rgx_bracket(s, t0, t2, n0, n1, d1, r0) ==
    arg_rgx_rest(s, t0, t2, n0, n1, d1, r0, find_char(s, "\n", r0))

\* (=[a-zA-Z-0-9.#:]+)? from n1, the end of the name; de is the end of the run
\* of default characters after n1.
arg_rgx_default(s, t0, t2, n0, n1, de) ==
    IF char_at(s, n1) = "=" /\ de > n1 + 1
    THEN arg_rgx_bracket(s, t0, t2, n0, n1, de, IF char_at(s, de) = "]" THEN de + 1 ELSE de)
    ELSE arg_rgx_bracket(s, t0, t2, n0, n1, n1, IF char_at(s, n1) = "]" THEN n1 + 1 ELSE n1)

\* (\w+) from n0.
arg_rgx_name(s, t0, t2, n0, n1) ==
    IF n1 > n0 THEN arg_rgx_default(s, t0, t2, n0, n1, run_end(s, n1 + 1, DefaultChars))
    ELSE NoMatch

\* =?\}\s\[? from t1, the end of the run of type characters.
arg_rgx_close(s, t0, t2) ==
    IF char_at(s, t2) = "}" /\ char_at(s, t2 + 1) \in Whitespace
    THEN IF char_at(s, t2 + 2) = "["
         THEN arg_rgx_name(s, t0, t2, t2 + 3, run_end(s, t2 + 3, WordChars))
         ELSE arg_rgx_name(s, t0, t2, t2 + 2, run_end(s, t2 + 2, WordChars))
    ELSE NoMatch

arg_rgx_type(s, t0, t1) ==
    IF t1 > t0 THEN arg_rgx_close(s, t0, IF char_at(s, t1) = "=" THEN t1 + 1 ELSE t1)
    ELSE NoMatch

\* @param\s\{([-a-zA-Z0-9|]+ from i.
TAG_ARG_RGX_match(s, i) ==
    IF /\ i + 5 <= Len(s)
       /\ SubSeq(s, i, i + 5) = <<"@","p","a","r","a","m">>
       /\ char_at(s, i + 6) \in Whitespace
       /\ char_at(s, i + 7) = "{"
    THEN arg_rgx_type(s, i + 8, run_end(s, i + 8, TypeChars))
    ELSE NoMatch

\* findall: the matches from left to right, each search resuming where the
\* match before it ended.
RECURSIVE findall_from(_, _)
findall_next(s, m) == <<m.groups>> \o findall_from(s, m.end)

findall_at(s, starts) ==
    IF starts = {} THEN <<>> ELSE findall_next(s, TAG_ARG_RGX_match(s, Min(starts)))

findall_from(s, i) == findall_at(s, {j \in i..Len(s) : TAG_ARG_RGX_match(s, j).found})

TAG_ARG_RGX_findall(comment) == findall_from(comment, 1)

(***************************************************************************)
(* tools/parse.py: files2keep and main.  A source file is its stem, the    *)
(* directories between TAGS_DIR and the file, and its text.                *)
(***************************************************************************)
\* The stems of the *.md documents under DOCS_DIR.
DocsStems == { <<"C","h","o","i","c","e">>, <<"I","m","a","g","e">>, <<"v","i","e","w">>, <<"T","e","x","t">>, <<"i","n","d","e","x">> }

DOCS_FILES == { d \in DocsStems : d # <<"i","n","d","e","x">> }

\* file.parent.name: TAGS_DIR is .../src/tags.
parent_name(file) ==
    IF file.parent = <<>> THEN <<"t","a","g","s">> ELSE file.parent[Len(file.parent)]

\* Mutant: view.jsx is kept wherever it lies.
files2keep_any_view(file) ==
    /\ find_sub(file.stem, <<"_","_">>, 1) = 0
    /\ str_lower(file.stem) \in { str_lower(d) : d \in DOCS_FILES }

\* Lines 115-138.
files2keep(file) ==
    /\ find_sub(file.stem, <<"_","_">>, 1) = 0
    /\ str_lower(file.stem) \in { str_lower(d) : d \in DOCS_FILES }
    /\ (IF str_lower(file.stem) = <<"v","i","e","w">> THEN parent_name(file) = <<"v","i","s","u","a","l">> ELSE TRUE)

\* Lines 143-149.
imports ==
    <<"f","r","o","m"," ","t","y","p","i","n","g"," ","i","m","p","o","r","t"," ","L","i","t","e","r","a","l",","," ","O","p","t","i","o","n","a","l">> \o <<"\n">> \o <<>> \o <<"\n">>
    \o <<"f","r","o","m"," ","p","y","d","a","n","t","i","c"," ","i","m","p","o","r","t"," ","B","a","s","e","M","o","d","e","l",","," ","F","i","e","l","d">> \o <<"\n">> \o <<>> \o <<"\n">> \o <<>>

\* Mutant: the category is the name of the directory that holds the file.
tag_dir_of_parent(file) ==
    IF file.parent # <<>> THEN file.parent[Len(file.parent)] ELSE <<"c","o","n","t","r","o","l">>

\* Lines 155-156.
tag_dir_of(file) == IF file.parent # <<>> THEN file.parent[1] ELSE <<"c","o","n","t","r","o","l">>

dict_has(d, key) == \E i \in 1..Len(d) : d[i][1] = key

dict_index(d, key) == CHOOSE i \in 1..Len(d) : d[i][1] = key

\* Mutant: a block is appended to its group after one blank line only.
py_files_add_one_blank(d, key, text_out) ==
    IF dict_has(d, key)
    THEN [d EXCEPT ![dict_index(d, key)] = <<key, @[2] \o <<"\n">> \o text_out>>]
    ELSE Append(d, <<key, imports \o <<"\n">> \o text_out>>)

\* Lines 195-199: append to the group of the key, or start it with the imports.
py_files_add(d, key, text_out) ==
    IF dict_has(d, key)
    THEN [d EXCEPT ![dict_index(d, key)] = <<key, @[2] \o <<"\n","\n">> \o text_out>>]
    ELSE Append(d, <<key, imports \o <<"\n">> \o text_out>>)

\* Mutant: a file without schema still adds an (empty) block to its group.
NoBlock_emitted == [emit |-> TRUE, text_out |-> <<>>]

\* The outcome of a pass of the loop body that reaches no assignment to py_files.
NoBlock == [emit |-> FALSE, text_out |-> <<>>]

\* A name of main's frame that no assignment has bound yet.
Unbound == [t |-> "unbound"]

\* The names of main's frame that outlive a pass of the loop and are read when
\* a block is built: meta_title, meta_desc and arg_block.
NoLocals == [meta_title |-> Unbound, meta_desc |-> Unbound, arg_block |-> Unbound]

\* The outcome of a pass together with what the three names hold after it.
bind(block, meta_title, meta_desc, arg_block) ==
    [emit |-> block.emit, text_out |-> block.text_out,
     locals |-> [meta_title |-> meta_title, meta_desc |-> meta_desc,
                 arg_block |-> arg_block]]

\* Lines 187-194.
class_text(stem, meta_title, meta_desc, arg_block) ==
    [emit |-> TRUE,
     text_out |->
        <<"c","l","a","s","s"," ">> \o stem \o <<"T","a","g","(","B","a","s","e","M","o","d","e","l",")",":","\n">>
        \o (IF truthy(meta_desc)
            THEN INDENT \o <<"\"","\"","\"","\n">> \o INDENT \o py_str(meta_title) \o <<"\n","\n">>
                 \o INDENT \o py_str(meta_desc) \o <<"\n">> \o INDENT \o <<"\"","\"","\"","\n">>
            ELSE INDENT \o <<"\"","\"","\"","\n">> \o INDENT \o py_str(meta_title) \o <<"\n">>
                 \o INDENT \o <<"\"","\"","\"","\n">>)
        \o arg_block \o <<"\n">>]

\* Lines 184-186: nothing without an argument block; the first line of the
\* comment is the title when neither title nor description is set.
schema_text(stem, comment, meta_title, meta_desc, arg_block) ==
    IF arg_block = <<>> THEN bind(NoBlock, meta_title, meta_desc, PyStr(arg_block))
    ELSE IF ~(truthy(meta_title) \/ truthy(meta_desc))
    THEN LET first == PyStr(str_strip(str_strip_chars(str_splitlines(comment)[1], {"*"})))
         IN  bind(class_text(stem, first, meta_desc, arg_block),
                  first, meta_desc, PyStr(arg_block))
    ELSE bind(class_text(stem, meta_title, meta_desc, arg_block),
              meta_title, meta_desc, PyStr(arg_block))

\* Lines 178-182.
schema_args(stem, comment, meta_title, meta_desc, arg_list) ==
    schema_text(stem, comment, meta_title, meta_desc,
                IF arg_list # <<>> THEN str_join(<<"\n">>, make_args(arg_list)) ELSE <<>>)

\* Lines 175-176: the argument list is read only under a matched description.
\* Without a match meta_desc is bound to None and arg_block keeps what an
\* earlier pass left in it.
schema_desc(prev, stem, comment, meta_title, desc_m) ==
    IF desc_m.found
    THEN schema_args(stem, comment, meta_title, PyStr(str_strip(desc_m.group1)),
                     TAG_ARG_RGX_findall(comment))
    ELSE bind(NoBlock, meta_title, PyNone, prev.arg_block)

\* Mutant: the title is assigned only under a match, over a name that starts
\* as None, so that an earlier file's title stays in it.
meta_title_kept(prev_title, title_m) ==
    IF title_m.found
    THEN PyStr(str_strip(title_m.group1)
               \o (IF str_endswith(title_m.group0, <<".">>) THEN <<>> ELSE <<".">>))
    ELSE IF prev_title = Unbound THEN PyNone ELSE prev_title

\* Lines 167-173: the assignment expression binds meta_title to the match or
\* to None, whatever prev_title the name held before.
meta_title_of(prev_title, title_m) ==
    IF title_m.found
    THEN PyStr(str_strip(title_m.group1)
               \o (IF str_endswith(title_m.group0, <<".">>) THEN <<>> ELSE <<".">>))
    ELSE PyNone

\* Lines 161-162.
comment_text(stripped) ==
    stripped \o (IF ~str_endswith(stripped, <<"\n">>) THEN <<"\n">> ELSE <<>>)

schema_comment(prev, stem, comment) ==
    schema_desc(prev, stem, comment,
                meta_title_of(prev.meta_title, TAG_META_TITLE_search(comment)),
                TAG_DESC_search(comment))

\* Line 160: without a comment block no name of the frame is assigned.
schema_found(prev, stem, found) ==
    IF found.found THEN schema_comment(prev, stem, comment_text(str_strip(found.group1)))
    ELSE bind(NoBlock, prev.meta_title, prev.meta_desc, prev.arg_block)

\* Lines 158-194: one pass of the loop body over a file, in a frame whose
\* names hold prev.
schema_pass(prev, file) ==
    schema_found(prev, file.stem, MULTILINE_COMMENT_search(file.text))

\* The pass over a file in a frame that no earlier pass has touched.
schema_block(file) == schema_pass(NoLocals, file)

(***************************************************************************)
(* The serializer's inputs: field mappings in iteration order (a dict has  *)
(* each key once) and ignore sets.                                         *)
(***************************************************************************)
XmlFields ==
    { <<<<"n","a","m","e">>, PyStr(<<"r","e","c","t","1">>)>>, <<<<"n","a","m","e">>, PyStr(<<>>)>>, <<<<"n","a","m","e">>, PyNone>>,
      <<<<"t","o","N","a","m","e">>, PyStr(<<"i","m","g">>)>>,
      <<<<"t","o","_","n","a","m","e">>, PyStr(<<"i","m","g">>)>>, <<<<"t","o","_","n","a","m","e">>, PyNone>>,
      <<<<"o","p","a","c","i","t","y">>, PyFloat(6)>>, <<<<"o","p","a","c","i","t","y">>, PyInt(0)>>,
      <<<<"o","p","a","c","i","t","y">>, PyFloat(0)>>, <<<<"o","p","a","c","i","t","y">>, PyInt(12)>>,
      <<<<"s","m","a","r","t">>, PyList(<<>>)>>, <<<<"t","o","_","n","a","m","e">>, PyDict(<<>>)>>,
      <<<<"s","m","a","r","t">>, PyBool(TRUE)>>, <<<<"s","m","a","r","t">>, PyBool(FALSE)>>, <<<<"s","m","a","r","t">>, PyNone>> }

dict_keys(d) == {d[i][1] : i \in 1..Len(d)}

RECURSIVE Dicts(_)
Dicts(n) ==
    IF n = 0 THEN {<<>>}
    ELSE LET prev == Dicts(n - 1)
         IN  prev \cup
             { Append(p[1], p[2]) :
                 p \in { q \in prev \X XmlFields :
                           Len(q[1]) = n - 1 /\ q[2][1] \notin dict_keys(q[1]) } }

IgnoreSets == { {}, {<<"n","a","m","e">>}, {<<"t","o","N","a","m","e">>}, {<<"s","m","a","r","t">>} }

ClassNames == { <<"R","e","c","t","a","n","g","l","e","T","a","g">>, <<"C","o","n","t","r","o","l">> }

NoRet == [exc |-> "none", val |-> <<>>]

InitXml ==
    /\ xml_pc = "ready"
    /\ model_dict \in Dicts(MaxFields)
    /\ ignore \in IgnoreSets
    /\ res = <<>>
    /\ xml_ret = [cls |-> <<>>, no_defaults |-> FALSE, out |-> NoRet]
    /\ fmt_pc = "idle"
    /\ xml_string = <<>>
    /\ indent_size = 0
    /\ fmt_ret = NoRet
    /\ args_pc = "idle"
    /\ args = <<>>
    /\ str_args = <<>>
    /\ main_pc = "idle"
    /\ FILES = <<>>
    /\ py_files = <<>>
    /\ wi = 1
    /\ written = <<>>
    /\ read_log = <<>>
    /\ calls = 0
    /\ locals = NoLocals
    /\ camel_pc = "idle"
    /\ camel_s = <<>>
    /\ camel_ret = <<>>

\* A caller passes the mapping and the ignore set to into_xml.
IntoXmlCall ==
    /\ xml_pc = "ready"
    /\ res' = into_xml(model_dict, ignore)
    /\ xml_pc' = "into_xml_done"
    /\ UNCHANGED <<model_dict, ignore, xml_ret, fmt_vars, args_vars, main_vars, camel_vars>>

\* instance.xml(no_defaults) of an instance whose fields are model_dict.
BaseTagXml ==
    /\ xml_pc = "ready"
    /\ \E cls \in ClassNames, nd \in BOOLEAN :
          xml_ret' = [cls |-> cls, no_defaults |-> nd, out |-> BaseTag_xml(cls, model_dict, nd)]
    /\ xml_pc' = "xml_done"
    /\ UNCHANGED <<model_dict, ignore, res, fmt_vars, args_vars, main_vars, camel_vars>>

\* str(instance): __str__ returns self.xml().
BaseTagStr ==
    /\ xml_pc = "ready"
    /\ \E cls \in ClassNames :
          xml_ret' = [cls |-> cls, no_defaults |-> FALSE, out |-> BaseTag_xml(cls, model_dict, FALSE)]
    /\ xml_pc' = "str_done"
    /\ UNCHANGED <<model_dict, ignore, res, fmt_vars, args_vars, main_vars, camel_vars>>

(***************************************************************************)
(* The formatter's inputs: strings of at most MaxTags tags.                *)
(***************************************************************************)
TagPieces == { <<"<","a",">">>, <<"<","/","a",">">>, <<"<","b",">">>, <<"<","/","b",">">>, <<"<","b","/",">">> }

RECURSIVE XmlStrings(_)
XmlStrings(n) ==
    IF n = 0 THEN {<<>>}
    ELSE LET prev == XmlStrings(n - 1)
         IN  prev \cup { p[1] \o p[2] : p \in prev \X TagPieces }

IndentSizes == {0, 2}

\* The default of the parameter indent_size.
default_indent_size == 4

InitFmt ==
    /\ xml_pc = "idle"
    /\ model_dict = <<>>
    /\ ignore = {}
    /\ res = <<>>
    /\ xml_ret = [cls |-> <<>>, no_defaults |-> FALSE, out |-> NoRet]
    /\ fmt_pc = "ready"
    /\ xml_string \in XmlStrings(MaxTags)
    /\ indent_size = 0
    /\ fmt_ret = NoRet
    /\ args_pc = "idle"
    /\ args = <<>>
    /\ str_args = <<>>
    /\ main_pc = "idle"
    /\ FILES = <<>>
    /\ py_files = <<>>
    /\ wi = 1
    /\ written = <<>>
    /\ read_log = <<>>
    /\ calls = 0
    /\ locals = NoLocals
    /\ camel_pc = "idle"
    /\ camel_s = <<>>
    /\ camel_ret = <<>>

\* format_xml_string(xml_string, indent_size)
FormatXmlString ==
    /\ fmt_pc = "ready"
    /\ \E n \in IndentSizes :
          /\ indent_size' = n
          /\ fmt_ret' = format_xml_string(xml_string, n)
    /\ fmt_pc' = "done"
    /\ UNCHANGED <<xml_string, xml_vars, args_vars, main_vars, camel_vars>>

\* format_xml_string(xml_string)
FormatXmlStringDefault ==
    /\ fmt_pc = "ready"
    /\ indent_size' = default_indent_size
    /\ fmt_ret' = format_xml_string(xml_string, default_indent_size)
    /\ fmt_pc' = "done"
    /\ UNCHANGED <<xml_string, xml_vars, args_vars, main_vars, camel_vars>>

(***************************************************************************)
(* The renderer's inputs: tuples as TAG_ARG_RGX captures them.             *)
(***************************************************************************)
ArgTypes ==
    { <<"s","t","r","i","n","g">>, <<"n","u","m","b","e","r">>, <<"b","o","o","l","e","a","n">>, <<"b","o","o","l","e","a","n","=">>, <<"s","t","r","i","n","g","|","n","u","m","b","e","r">>,
      <<"t","o","p","|","b","o","t","t","o","m">>, <<"s","t","y","l","e">> }

ArgDefaults == { <<>>, <<"=","t","r","u","e">>, <<"=","f","a","l","s","e">>, <<"=","1">>, <<"=","t","o","p">>, <<"=","N","o","n","e">> }

ArgTuples ==
    { <<p[1], <<"x">>, p[2], <<" ","-"," ","S","o","m","e"," ","\"","x","\"">>>> : p \in ArgTypes \X ArgDefaults }
    \cup { <<<<"b","o","o","l","e","a","n">>, <<"s","e","l","e","c","t","e","d">>, d, <<>>>> : d \in {<<"=","t","r","u","e">>, <<"=","f","a","l","s","e">>} }
    \cup { <<<<"f","l","o","a","t","|","a","r","r","a","y","|","o","b","j","e","c","t","|","f","u","n","c","t","i","o","n","|","n","u","l","l">>, <<"x">>, d, <<" ","-"," ","S","o","m","e"," ","\"","x","\"">>>> : d \in {<<>>, <<"=","1">>} }
    \cup { <<<<"s","t","r","i","n","g">>, <<"x">>, <<"=",".",".",".">>, <<" ","-"," ","S","o","m","e"," ","\"","x","\"">>>> }

RECURSIVE ArgLists(_)
ArgLists(n) ==
    IF n = 0 THEN {<<>>}
    ELSE LET prev == ArgLists(n - 1)
         IN  prev \cup { Append(p[1], p[2]) : p \in prev \X ArgTuples }

InitArgs ==
    /\ args_pc = "ready"
    /\ args \in ArgLists(MaxArgs)
    /\ str_args = <<>>
    /\ xml_pc = "idle"
    /\ model_dict = <<>>
    /\ ignore = {}
    /\ res = <<>>
    /\ xml_ret = [cls |-> <<>>, no_defaults |-> FALSE, out |-> NoRet]
    /\ fmt_pc = "idle"
    /\ xml_string = <<>>
    /\ indent_size = 0
    /\ fmt_ret = NoRet
    /\ main_pc = "idle"
    /\ FILES = <<>>
    /\ py_files = <<>>
    /\ wi = 1
    /\ written = <<>>
    /\ read_log = <<>>
    /\ calls = 0
    /\ locals = NoLocals
    /\ camel_pc = "idle"
    /\ camel_s = <<>>
    /\ camel_ret = <<>>

\* make_args(args)
MakeArgs ==
    /\ args_pc = "ready"
    /\ str_args' = make_args(args)
    /\ args_pc' = "done"
    /\ UNCHANGED <<args, xml_vars, fmt_vars, main_vars, camel_vars>>

(***************************************************************************)
(* The generator's inputs: source files under TAGS_DIR.                    *)
(***************************************************************************)
LineIntro == <<" ","*"," ","T","h","e"," ","t","a","g","\n">>
LineTitle == <<" ","*"," ","@","m","e","t","a","_","t","i","t","l","e"," ","C","h","o","i","c","e"," ","T","a","g","\n">>
LineTitleDot == <<" ","*"," ","@","m","e","t","a","_","t","i","t","l","e"," ","I","m","a","g","e"," ","T","a","g",".","\n">>
LineTitleDotSpace == <<" ","*"," ","@","m","e","t","a","_","t","i","t","l","e"," ","T","e","x","t"," ","T","a","g","."," ","\n">>
LineDesc == <<" ","*"," ","@","m","e","t","a","_","d","e","s","c","r","i","p","t","i","o","n"," ","C","u","s","t","o","m","i","z","e"," ","i","t",".","\n">>
LineParam1 == <<" ","*"," ","@","p","a","r","a","m"," ","{","s","t","r","i","n","g","}"," ","v","a","l","u","e"," ","-"," ","C","h","o","i","c","e"," ","v","a","l","u","e","\n">>
LineParam2 == <<" ","*"," ","@","p","a","r","a","m"," ","{","t","o","p","|","b","o","t","t","o","m","}"," ","[","p","o","s","i","t","i","o","n","=","t","o","p","]"," ","W","h","e","r","e","\n">>

comment_block(body) == <<"/","*","*","\n">> \o body \o <<" ","*","/","\n">>

TextFull == comment_block(LineIntro \o LineTitle \o LineDesc \o LineParam1 \o LineParam2) \o <<"c","o","d","e",";","\n">>
TextNoTitle == comment_block(LineDesc \o LineParam1)
TextNoDesc == comment_block(LineTitle \o LineParam1)
TextParamOnly == comment_block(LineIntro \o LineParam1)
TextNoParam == comment_block(LineTitle \o LineDesc)
TextNoComment == <<"c","o","d","e",";","\n">>
TextTitleDot == comment_block(LineTitleDot \o LineDesc \o LineParam1)
TextTitleDotSpace == comment_block(LineTitleDotSpace \o LineDesc \o LineParam1)
TextLaterParam ==
    comment_block(LineTitle \o LineDesc) \o <<"c","o","d","e",";","\n">> \o comment_block(LineDesc \o LineParam1)
TextTwoBlocks ==
    comment_block(LineDesc \o LineParam1) \o comment_block(LineTitleDot \o LineParam2)

SourceFiles ==
    { [stem |-> <<"C","h","o","i","c","e">>, parent |-> <<<<"c","o","n","t","r","o","l">>>>, text |-> TextFull],
      [stem |-> <<"C","h","o","i","c","e">>, parent |-> <<>>, text |-> TextNoTitle],
      [stem |-> <<"I","m","a","g","e">>, parent |-> <<<<"o","b","j","e","c","t">>>>, text |-> TextNoDesc],
      [stem |-> <<"I","m","a","g","e">>, parent |-> <<<<"c","o","n","t","r","o","l">>>>, text |-> TextParamOnly],
      [stem |-> <<"T","e","x","t">>, parent |-> <<<<"o","b","j","e","c","t">>>>, text |-> TextNoParam],
      [stem |-> <<"T","e","x","t">>, parent |-> <<<<"c","o","n","t","r","o","l">>>>, text |-> TextNoComment],
      [stem |-> <<"V","i","e","w">>, parent |-> <<<<"v","i","s","u","a","l">>>>, text |-> TextNoTitle],
      [stem |-> <<"V","i","e","w">>, parent |-> <<<<"o","b","j","e","c","t">>, <<"R","i","c","h","T","e","x","t">>>>, text |-> TextFull],
      [stem |-> <<"C","h","o","i","c","e","_","_","t","e","s","t">>, parent |-> <<<<"c","o","n","t","r","o","l">>>>, text |-> TextFull],
      [stem |-> <<"H","e","l","p","e","r">>, parent |-> <<<<"c","o","n","t","r","o","l">>>>, text |-> TextFull],
      [stem |-> <<"I","m","a","g","e">>, parent |-> <<<<"o","b","j","e","c","t">>, <<"R","i","c","h","T","e","x","t">>>>, text |-> TextTitleDot],
      [stem |-> <<"T","e","x","t">>, parent |-> <<<<"v","i","s","u","a","l">>>>, text |-> TextTitleDotSpace],
      [stem |-> <<"i","n","d","e","x">>, parent |-> <<<<"c","o","n","t","r","o","l">>>>, text |-> TextFull],
      [stem |-> <<"I","m","a","g","e">>, parent |-> <<<<"v","i","s","u","a","l">>>>, text |-> TextLaterParam],
      [stem |-> <<"C","h","o","i","c","e">>, parent |-> <<<<"v","i","s","u","a","l">>>>, text |-> TextTwoBlocks] }

\* rglob yields each path once.
RECURSIVE FileLists(_)
FileLists(n) ==
    IF n = 0 THEN {<<>>}
    ELSE LET prev == FileLists(n - 1)
         IN  prev \cup
             { Append(p[1], p[2]) :
                 p \in { q \in prev \X SourceFiles :
                           Len(q[1]) = n - 1 /\ q[2] \notin Range(q[1]) } }

InitMain ==
    /\ main_pc = "ready"
    /\ FILES \in FileLists(MaxFiles)
    /\ py_files = <<>>
    /\ wi = 1
    /\ written = <<>>
    /\ read_log = <<>>
    /\ calls = 0
    /\ locals = NoLocals
    /\ camel_pc = "idle"
    /\ camel_s = <<>>
    /\ camel_ret = <<>>
    /\ xml_pc = "idle"
    /\ model_dict = <<>>
    /\ ignore = {}
    /\ res = <<>>
    /\ xml_ret = [cls |-> <<>>, no_defaults |-> FALSE, out |-> NoRet]
    /\ fmt_pc = "idle"
    /\ xml_string = <<>>
    /\ indent_size = 0
    /\ fmt_ret = NoRet
    /\ args_pc = "idle"
    /\ args = <<>>
    /\ str_args = <<>>

\* Mutant: each call scans the directory again, so the files an earlier call
\* has read are candidates once more.
MainStart_rescans ==
    /\ main_pc \in {"ready", "done", "raised"}
    /\ calls < MaxCalls
    /\ calls' = calls + 1
    /\ py_files' = <<>>
    /\ locals' = NoLocals
    /\ main_pc' = "loop"
    /\ FILES' = FILES \o read_log
    /\ UNCHANGED <<wi, written, read_log, xml_vars, fmt_vars, args_vars, camel_vars>>

\* main() is entered: py_files = {} (line 152).  FILES is the module's
\* generator and keeps whatever an earlier call left of it.
MainStart ==
    /\ main_pc \in {"ready", "done", "raised"}
    /\ calls < MaxCalls
    /\ calls' = calls + 1
    /\ py_files' = <<>>
    /\ locals' = NoLocals
    /\ main_pc' = "loop"
    /\ UNCHANGED <<FILES, wi, written, read_log, xml_vars, fmt_vars, args_vars, camel_vars>>

\* filter(files2keep, FILES) draws a file that files2keep rejects.
MainSkip ==
    /\ main_pc = "loop"
    /\ FILES # <<>>
    /\ ~files2keep(Head(FILES))
    /\ FILES' = Tail(FILES)
    /\ UNCHANGED <<main_pc, py_files, wi, written, read_log, calls, locals, xml_vars, fmt_vars, args_vars, camel_vars>>

\* One pass of the loop body (lines 154-199) for a kept file.
MainProcess ==
    /\ main_pc = "loop"
    /\ FILES # <<>>
    /\ files2keep(Head(FILES))
    /\ \E block \in {schema_pass(locals, Head(FILES))} :
          /\ py_files' = IF block.emit
                         THEN py_files_add(py_files, tag_dir_of(Head(FILES)) \o <<".","p","y">>,
                                           block.text_out)
                         ELSE py_files
          /\ locals' = block.locals
    /\ read_log' = Append(read_log, Head(FILES))
    /\ FILES' = Tail(FILES)
    /\ UNCHANGED <<main_pc, wi, written, calls, xml_vars, fmt_vars, args_vars, camel_vars>>

\* Line 154: read_text raises on a kept file (it cannot be read or is not
\* UTF-8).  The error leaves main; the generator has moved past the file.
MainReadFails ==
    /\ main_pc = "loop"
    /\ FILES # <<>>
    /\ files2keep(Head(FILES))
    /\ main_pc' = "raised"
    /\ FILES' = Tail(FILES)
    /\ UNCHANGED <<py_files, wi, written, read_log, calls, locals, xml_vars, fmt_vars, args_vars, camel_vars>>

\* Mutant: the groups gathered so far are written while files remain.
MainLoopEnd_early ==
    /\ main_pc = "loop"
    /\ main_pc' = "write"
    /\ wi' = 1
    /\ UNCHANGED <<FILES, py_files, written, read_log, calls, locals, xml_vars, fmt_vars, args_vars, camel_vars>>

\* The generator is exhausted: the loop ends and the writing loop begins.
MainLoopEnd ==
    /\ main_pc = "loop"
    /\ FILES = <<>>
    /\ main_pc' = "write"
    /\ wi' = 1
    /\ UNCHANGED <<FILES, py_files, written, read_log, calls, locals, xml_vars, fmt_vars, args_vars, camel_vars>>

\* Lines 202-203: the next entry of py_files is written under ROOT.
MainWrite ==
    /\ main_pc = "write"
    /\ wi <= Len(py_files)
    /\ written' = Append(written, py_files[wi])
    /\ wi' = wi + 1
    /\ UNCHANGED <<main_pc, FILES, py_files, read_log, calls, locals, xml_vars, fmt_vars, args_vars, camel_vars>>

\* main() returns.
MainReturn ==
    /\ main_pc = "write"
    /\ wi > Len(py_files)
    /\ main_pc' = "done"
    /\ UNCHANGED <<FILES, py_files, wi, written, read_log, calls, locals, xml_vars, fmt_vars, args_vars, camel_vars>>

(***************************************************************************)
(* The inputs of snake2camel: identifiers of at most MaxSegments segments  *)
(* joined by underscores.                                                  *)
(***************************************************************************)
CamelSegments == { <<>>, <<"t","o">>, <<"n","a","m","e">>, <<"N","A","M","E">>, <<"f","i","l","l","C","o","l","o","r">> }

RECURSIVE CamelStrings(_)
CamelStrings(n) ==
    IF n = 1 THEN CamelSegments
    ELSE LET prev == CamelStrings(n - 1)
         IN  prev \cup { p[1] \o <<"_">> \o p[2] : p \in prev \X CamelSegments }

InitCamel ==
    /\ xml_pc = "idle"
    /\ model_dict = <<>>
    /\ ignore = {}
    /\ res = <<>>
    /\ xml_ret = [cls |-> <<>>, no_defaults |-> FALSE, out |-> NoRet]
    /\ fmt_pc = "idle"
    /\ xml_string = <<>>
    /\ indent_size = 0
    /\ fmt_ret = NoRet
    /\ args_pc = "idle"
    /\ args = <<>>
    /\ str_args = <<>>
    /\ main_pc = "idle"
    /\ FILES = <<>>
    /\ py_files = <<>>
    /\ wi = 1
    /\ written = <<>>
    /\ read_log = <<>>
    /\ calls = 0
    /\ locals = NoLocals
    /\ camel_pc = "ready"
    /\ camel_s \in CamelStrings(MaxSegments)
    /\ camel_ret = <<>>

\* A caller converts one identifier.
Snake2Camel ==
    /\ camel_pc = "ready"
    /\ camel_ret' = snake2camel(camel_s)
    /\ camel_pc' = "done"
    /\ UNCHANGED <<camel_s, xml_vars, fmt_vars, args_vars, main_vars>>

(***************************************************************************)
(* Specifications: one per component, and their union.                     *)
(***************************************************************************)
NextXml == IntoXmlCall \/ BaseTagXml \/ BaseTagStr

NextFmt == FormatXmlString \/ FormatXmlStringDefault

NextArgs == MakeArgs

NextCamel == Snake2Camel

NextMain ==
    MainStart \/ MainSkip \/ MainProcess \/ MainReadFails \/ MainLoopEnd \/ MainWrite
    \/ MainReturn

SpecXml == InitXml /\ [][NextXml]_vars

SpecFormat == InitFmt /\ [][NextFmt]_vars

SpecArgs == InitArgs /\ [][NextArgs]_vars

SpecMain == InitMain /\ [][NextMain]_vars

SpecCamel == InitCamel /\ [][NextCamel]_vars

Init == InitXml \/ InitFmt \/ InitArgs \/ InitMain \/ InitCamel

Next == NextXml \/ NextFmt \/ NextArgs \/ NextMain \/ NextCamel

Spec == Init /\ [][Next]_vars


(***************************************************************************)
(* Properties of tools/convert.py and base.py, checked under SpecXml.      *)
(***************************************************************************)
\* The text of an attribute string before its first "=".
attr_name(a) == SubSeq(a, 1, find_char(a, "=", 1) - 1)

\* Some window of s equals pat.
contains(s, pat) == find_sub(s, pat, 1) # 0

\* A value that passes "v is not None and (v or isinstance(v, bool))", told by
\* the value itself: everything but None, "", 0, 0.0 and the empty list or dict.
value_qualifies(v) ==
    /\ v.t # "None"
    /\ ~(v.t \in {"str", "list", "dict"} /\ v.v = <<>>)
    /\ ~(v.t \in {"int", "float"} /\ v.v = 0)

\* The entries of model_dict that the claims expect to be emitted.
entry_qualifies(i) ==
    value_qualifies(model_dict[i][2]) /\ model_dict[i][1] \notin ignore

\* The position in the output of the attribute of the qualifying entry i.
entry_rank(i) == Cardinality({j \in 1..i : entry_qualifies(j)})

RectangleExample ==
    << <<<<"n","a","m","e">>, PyStr(<<"r","e","c","t","1">>)>>, <<<<"t","o","N","a","m","e">>, PyStr(<<"i","m","g">>)>>,
       <<<<"o","p","a","c","i","t","y">>, PyFloat(6)>> >>

\* C1: with the mapping {name: "rect1", toName: "img", opacity: 0.6} and an
\* empty ignore set, the attributes of into_xml joined into an element named
\* RectangleTag read <RectangleTag name="rect1" toName="img" opacity="0.6" />,
\* and every emitted key that has no underscore keeps its spelling.
C1_RoundTripKeepsCamelCase ==
    (xml_pc = "into_xml_done" /\ ignore = {}) =>
        /\ model_dict = RectangleExample =>
              <<"<","R","e","c","t","a","n","g","l","e","T","a","g"," ">> \o str_join(<<" ">>, res) \o <<" ","/",">">>
                 = <<"<","R","e","c","t","a","n","g","l","e","T","a","g"," ","n","a","m","e","=","\"","r","e","c","t","1","\""," ","t","o","N","a","m","e","=","\"","i","m","g","\""," ","o","p","a","c","i","t","y","=","\"","0",".","6","\""," ","/",">">>
        /\ \A i \in 1..Len(model_dict) :
              (entry_qualifies(i) /\ "_" \notin Range(model_dict[i][1])) =>
                  /\ entry_rank(i) <= Len(res)
                  /\ attr_name(res[entry_rank(i)]) = model_dict[i][1]

\* C2: into_xml emits exactly the entries whose value is not None, is truthy
\* or a boolean, and whose key is not ignored, in the mapping's order; True is
\* written "true", False is written "false", None and "" are never written.
C2_EmitsIffQualifies ==
    xml_pc = "into_xml_done" =>
        /\ Len(res) = entry_rank(Len(model_dict))
        /\ \A i \in 1..Len(model_dict) :
              entry_qualifies(i) =>
                  /\ attr_name(res[entry_rank(i)]) = snake2camel(model_dict[i][1])
                  /\ model_dict[i][2].t = "bool" =>
                        res[entry_rank(i)]
                           = snake2camel(model_dict[i][1]) \o <<"=","\"">>
                             \o (IF model_dict[i][2].v THEN <<"t","r","u","e">> ELSE <<"f","a","l","s","e">>)
                             \o <<"\"">>
        /\ \A i \in 1..Len(model_dict) :
              (model_dict[i][2].t = "None"
                 \/ (model_dict[i][2].t = "str" /\ model_dict[i][2].v = <<>>))
              => ~entry_qualifies(i)

\* A False that is written, next to an empty string and a None that are not.
C2_FalseEmittedEmptyDropped ==
    /\ xml_pc = "into_xml_done"
    /\ ignore = {}
    /\ model_dict = << <<<<"n","a","m","e">>, PyStr(<<>>)>>, <<<<"s","m","a","r","t">>, PyBool(FALSE)>>,
                       <<<<"t","o","_","n","a","m","e">>, PyNone>> >>
    /\ res = << <<"s","m","a","r","t","=","\"","f","a","l","s","e","\"">> >>

\* C3 as stated: no attribute of the output is named like an identifier of the
\* ignore set.
C3_NoAttributeNamedLikeIgnored ==
    xml_pc = "into_xml_done" =>
        \A id \in ignore : \A j \in 1..Len(res) : attr_name(res[j]) # id

\* C3, amended: the ignore set is matched against the keys of the mapping as
\* they are given.  Every attribute of the output renders an entry whose key is
\* not in the ignore set, and an entry whose key is ignored adds no attribute.
C3_IgnoredKeysEmitNothing ==
    xml_pc = "into_xml_done" =>
        /\ \A j \in 1..Len(res) :
              \E i \in 1..Len(model_dict) :
                  /\ model_dict[i][1] \notin ignore
                  /\ attr_name(res[j]) = snake2camel(model_dict[i][1])
        /\ Len(res) <= Cardinality({i \in 1..Len(model_dict) : model_dict[i][1] \notin ignore})

\* An ignored key with a value that would otherwise be written, between two
\* entries that are written.
C3_IgnoredKeyDropped ==
    /\ xml_pc = "into_xml_done"
    /\ ignore = {<<"n","a","m","e">>}
    /\ model_dict = << <<<<"s","m","a","r","t">>, PyBool(TRUE)>>, <<<<"n","a","m","e">>, PyStr(<<"r","e","c","t","1">>)>>,
                       <<<<"o","p","a","c","i","t","y">>, PyFloat(6)>> >>
    /\ res = << <<"s","m","a","r","t","=","\"","t","r","u","e","\"">>, <<"o","p","a","c","i","t","y","=","\"","0",".","6","\"">> >>

\* C4: xml() and str() of a schema instance return the self-closing element
\* <ClassName a1="v1" ... />, or <ClassName /> without attributes, and do
\* not raise.
C4_XmlReturnsElement ==
    xml_pc \in {"xml_done", "str_done"} =>
        /\ xml_ret.out.exc = "none"
        /\ str_startswith(xml_ret.out.val, <<"<">> \o xml_ret.cls)
        /\ str_endswith(xml_ret.out.val, <<" ","/",">">>)

(***************************************************************************)
(* Properties of tools/format.py, checked under SpecFormat.                *)
(***************************************************************************)
\* C5: format_xml_string("<a><b/></a>") returns two lines, none empty, the
\* first is <a>, and <b/> is indented by the indent size.
C5_TwoLinesIndented ==
    (fmt_pc = "done" /\ xml_string = <<"<","a",">","<","b","/",">","<","/","a",">">>) =>
        /\ fmt_ret.exc = "none"
        /\ Len(str_split(fmt_ret.val, "\n")) = 2
        /\ \A k \in 1..Len(str_split(fmt_ret.val, "\n")) : str_split(fmt_ret.val, "\n")[k] # <<>>
        /\ str_split(fmt_ret.val, "\n")[1] = <<"<","a",">">>
        /\ \E k \in 1..Len(str_split(fmt_ret.val, "\n")) :
              str_split(fmt_ret.val, "\n")[k] = spaces(indent_size) \o <<"<","b","/",">">>

\* The nesting depth after the first i tags of a document of tags.
tag_depth(toks, i) ==
    Cardinality({j \in 1..i : toks[j].kind = "open"})
    - Cardinality({j \in 1..i : toks[j].kind = "close"})

\* The start tags that a closing tag at i may close.
open_before(toks, i) ==
    {j \in 1..(i - 1) : toks[j].kind = "open" /\ tag_depth(toks, j) = tag_depth(toks, i) + 1}

\* Well-formedness of a document of tags: one root element that ends with the
\* document, and every closing tag names the element it closes.
well_formed(toks) ==
    /\ toks # <<>>
    /\ \A i \in 1..(Len(toks) - 1) : tag_depth(toks, i) >= 1
    /\ tag_depth(toks, Len(toks)) = 0
    /\ \A i \in 1..Len(toks) :
          toks[i].kind = "close" =>
              /\ open_before(toks, i) # {}
              /\ toks[Max(open_before(toks, i))].name = toks[i].name

type_members(arg) == strip_each(str_split(arg[1], "|"), {"="})

\* The text of the default: what follows "=", or "..." without a default.
default_text(arg) ==
    IF arg[3] = <<>> THEN <<".",".",".">> ELSE str_strip_chars(arg[3], {"="})

\* The Literal form over the raw members, wrapped when the field is optional.
literal_form(arg) ==
    (IF "=" \in Range(arg[3]) THEN <<"O","p","t","i","o","n","a","l","[","L","i","t","e","r","a","l","[">> ELSE <<"L","i","t","e","r","a","l","[">>)
    \o str_join(<<","," ">>, [k \in 1..Len(type_members(arg)) |->
                            <<"\"">> \o type_members(arg)[k] \o <<"\"">>])
    \o (IF "=" \in Range(arg[3]) THEN <<"]","]">> ELSE <<"]">>)

\* C7: a parameter whose members are all in the vocabulary never gets the
\* Literal form; a parameter with a member outside it gets the Literal form
\* over its raw members, Optional-wrapped when optional, and its default is
\* the default text in one pair of double quotes.
C7_LiteralIffUnknownMember ==
    args_pc = "done" =>
        \A i \in 1..Len(args) :
            IF \A k \in 1..Len(type_members(args[i])) : in_TYPE_CONVERT(type_members(args[i])[k])
            THEN ~contains(str_args[i], <<"L","i","t","e","r","a","l","[">>)
            ELSE str_startswith(str_args[i],
                    INDENT \o str_strip(args[i][2]) \o <<":"," ">> \o literal_form(args[i])
                    \o <<" ","="," ","F","i","e","l","d","(","\"">> \o default_text(args[i]) \o <<"\"",","," ","d","e","s","c","r","i","p","t","i","o","n","=">>)

\* C8: a parameter of raw type boolean= has the default True when its default
\* literal is "true", and False for any other literal or none.
C8_BooleanDefault ==
    args_pc = "done" =>
        \A i \in 1..Len(args) :
            args[i][1] = <<"b","o","o","l","e","a","n","=">> =>
                IF args[i][3] = <<"=","t","r","u","e">>
                THEN contains(str_args[i], <<" ","="," ","F","i","e","l","d","(","T","r","u","e",","," ","d","e","s","c","r","i","p","t","i","o","n","=">>)
                ELSE contains(str_args[i], <<" ","="," ","F","i","e","l","d","(","F","a","l","s","e",","," ","d","e","s","c","r","i","p","t","i","o","n","=">>)

\* C9: a required parameter (no "=" marker, no default literal) is rendered
\* with the bare ellipsis as its default, whatever its type.
C9_RequiredRendersEllipsis ==
    args_pc = "done" =>
        \A i \in 1..Len(args) :
            ("=" \notin Range(args[i][1]) /\ args[i][3] = <<>>) =>
                contains(str_args[i], <<" ","="," ","F","i","e","l","d","(",".",".",".",","," ","d","e","s","c","r","i","p","t","i","o","n","=">>)

(***************************************************************************)
(* Properties of main, checked under SpecMain.                             *)
(***************************************************************************)
\* The number of windows of text that equal pat.
count_sub(text, pat) ==
    Cardinality({j \in 1..(Len(text) - Len(pat) + 1) : SubSeq(text, j, j + Len(pat) - 1) = pat})

\* The text of a category group, empty when the group does not exist.
group_text(key) == IF dict_has(py_files, key) THEN py_files[dict_index(py_files, key)][2] ELSE <<>>

\* The first documentation comment of the file has a line that matches the
\* @param pattern.
has_param(file) ==
    /\ MULTILINE_COMMENT_search(file.text).found
    /\ TAG_ARG_RGX_findall(comment_text(str_strip(MULTILINE_COMMENT_search(file.text).group1))) # <<>>

\* The files read so far that have the stem and the category of file.
same_schema(file) ==
    {j \in 1..Len(read_log) :
        read_log[j].stem = file.stem /\ tag_dir_of(read_log[j]) = tag_dir_of(file)}

\* C10: a kept file adds one block named <stem>Tag to its category group if
\* and only if its first comment has a line matching @param; without such a
\* line it adds nothing.
C10_SchemaIffParam ==
    (main_pc \in {"write", "done"} /\ calls = 1) =>
        \A i \in 1..Len(read_log) :
            count_sub(group_text(tag_dir_of(read_log[i]) \o <<".","p","y">>),
                      <<"c","l","a","s","s"," ">> \o read_log[i].stem \o <<"T","a","g","(","B","a","s","e","M","o","d","e","l",")",":">>)
              = Cardinality({j \in same_schema(read_log[i]) : has_param(read_log[j])})

(***************************************************************************)
(* Further properties of make_args, checked under SpecArgs.                *)
(***************************************************************************)
\* C11: make_args renders one line per @param entry, in the order of the
\* entries, and merges or drops none: two entries for `selected` with
\* different defaults give two declarations of it, in their order.
C11_OneLinePerParam ==
    args_pc = "done" =>
        /\ Len(str_args) = Len(args)
        /\ \A i \in 1..Len(args) :
              /\ str_startswith(str_args[i], INDENT \o str_strip(args[i][2]) \o <<":"," ">>)
              /\ args[i][2] = <<"s","e","l","e","c","t","e","d">> =>
                    contains(str_args[i],
                             IF args[i][3] = <<"=","t","r","u","e">> THEN <<" ","="," ","F","i","e","l","d","(","T","r","u","e",","," ">>
                             ELSE <<" ","="," ","F","i","e","l","d","(","F","a","l","s","e",","," ">>)

\* Two @param lines for `selected`, both rendered, in their order.
C11_SelectedTwice ==
    /\ args_pc = "done"
    /\ args = << <<<<"b","o","o","l","e","a","n">>, <<"s","e","l","e","c","t","e","d">>, <<"=","t","r","u","e">>, <<>>>>,
                 <<<<"b","o","o","l","e","a","n">>, <<"s","e","l","e","c","t","e","d">>, <<"=","f","a","l","s","e">>, <<>>>> >>
    /\ str_args = << <<" "," "," "," ","s","e","l","e","c","t","e","d",":"," ","O","p","t","i","o","n","a","l","[","b","o","o","l","]"," ","="," ","F","i","e","l","d","(","T","r","u","e",","," ","d","e","s","c","r","i","p","t","i","o","n","=","\"",".","\"",")">>,
                     <<" "," "," "," ","s","e","l","e","c","t","e","d",":"," ","O","p","t","i","o","n","a","l","[","b","o","o","l","]"," ","="," ","F","i","e","l","d","(","F","a","l","s","e",","," ","d","e","s","c","r","i","p","t","i","o","n","=","\"",".","\"",")">> >>

(***************************************************************************)
(* Further properties of main, checked under SpecMain.                     *)
(***************************************************************************)
\* The import preamble that starts every group.
Preamble ==
    <<"f","r","o","m"," ","t","y","p","i","n","g"," ","i","m","p","o","r","t"," ","L","i","t","e","r","a","l",","," ","O","p","t","i","o","n","a","l","\n","\n","f","r","o","m"," ","p","y","d","a","n","t","i","c"," ","i","m","p","o","r","t"," ","B","a","s","e","M","o","d","e","l",","," ","F","i","e","l","d","\n","\n","\n">>

\* The outcome of the loop body for each source file.
block_of == [f \in SourceFiles |-> schema_block(f)]

\* The schema blocks of the files read so far that belong to the group of key,
\* in the order the files were read.
RECURSIVE blocks_of(_, _)
blocks_of(files, key) ==
    IF files = <<>> THEN <<>>
    ELSE (IF tag_dir_of(Head(files)) \o <<".","p","y">> = key /\ block_of[Head(files)].emit
          THEN <<block_of[Head(files)].text_out>> ELSE <<>>)
         \o blocks_of(Tail(files), key)

\* C12: after any sequence of processed files a group's text is the import
\* preamble, once, followed by the blocks of its category in processing order,
\* consecutive blocks two blank lines apart; there is one group per category
\* key, and every block is in the group of its key.
C12_GroupIsPreambleThenBlocks ==
    (main_pc \in {"loop", "write", "done"} /\ calls = 1) =>
        /\ \A g, h \in 1..Len(py_files) : py_files[g][1] = py_files[h][1] => g = h
        /\ \A i \in 1..Len(read_log) :
              block_of[read_log[i]].emit =>
                  dict_has(py_files, tag_dir_of(read_log[i]) \o <<".","p","y">>)
        /\ \A g \in 1..Len(py_files) :
              /\ blocks_of(read_log, py_files[g][1]) # <<>>
              /\ py_files[g][2]
                    = Preamble \o str_join(<<"\n","\n">>, blocks_of(read_log, py_files[g][1]))
              /\ count_sub(py_files[g][2], <<"f","r","o","m"," ","t","y","p","i","n","g"," ","i","m","p","o","r","t">>) = 1

\* Two files of the category visual, in one group, in processing order.
C12_TwoBlocksOneGroup ==
    /\ main_pc = "done"
    /\ calls = 1
    /\ Len(read_log) = 2
    /\ read_log[1].stem = <<"V","i","e","w">>
    /\ read_log[2].stem = <<"T","e","x","t">>
    /\ Len(py_files) = 1
    /\ py_files[1][1] = <<"v","i","s","u","a","l",".","p","y">>
    /\ count_sub(py_files[1][2], <<"\"",")","\n","\n","\n","c","l","a","s","s"," ">>) = 1
    /\ find_sub(py_files[1][2], <<"c","l","a","s","s"," ","V","i","e","w","T","a","g","(","B","a","s","e","M","o","d","e","l",")",":">>, 1) # 0
    /\ find_sub(py_files[1][2], <<"c","l","a","s","s"," ","V","i","e","w","T","a","g","(","B","a","s","e","M","o","d","e","l",")",":">>, 1)
          < find_sub(py_files[1][2], <<"c","l","a","s","s"," ","T","e","x","t","T","a","g","(","B","a","s","e","M","o","d","e","l",")",":">>, 1)

\* The files the loop body passes over: no documentation comment, or a first
\* comment without description marker or without a line matching @param.
yields_no_schema ==
    [f \in SourceFiles |->
        \/ ~MULTILINE_COMMENT_search(f.text).found
        \/ ~contains(f.text, <<"@","m","e","t","a","_","d","e","s","c","r","i","p","t","i","o","n">>)
        \/ ~has_param(f)]

\* C13: processing a kept file whose text has been read and that has no
\* documentation comment, or whose comment yields no schema, raises nothing,
\* leaves every group accumulated so far and every written file as it is, and
\* the loop goes on: when main returns, every file has been drawn and every
\* group has been written.
C13_SkippedFileChangesNothing ==
    /\ [][(/\ main_pc = "loop"
           /\ FILES # <<>>
           /\ files2keep(Head(FILES))
           /\ read_log' # read_log
           /\ yields_no_schema[Head(FILES)])
          => (/\ py_files' = py_files
              /\ written' = written
              /\ main_pc' = "loop"
              /\ FILES' = Tail(FILES))]_vars
    /\ []((main_pc = "done" /\ calls = 1) => (FILES = <<>> /\ written = py_files))

\* A file without comment is passed over and the file after it is processed
\* and written.
C13_SkippedThenWritten ==
    /\ main_pc = "done"
    /\ calls = 1
    /\ Len(read_log) = 2
    /\ read_log[1] = [stem |-> <<"T","e","x","t">>, parent |-> <<<<"c","o","n","t","r","o","l">>>>, text |-> TextNoComment]
    /\ read_log[2].stem = <<"C","h","o","i","c","e">>
    /\ Len(written) = 1
    /\ written[1][1] = <<"c","o","n","t","r","o","l",".","p","y">>
    /\ contains(written[1][2], <<"c","l","a","s","s"," ","C","h","o","i","c","e","T","a","g","(","B","a","s","e","M","o","d","e","l",")",":">>)

(***************************************************************************)
(* Properties of snake2camel, checked under SpecCamel.                     *)
(***************************************************************************)
\* The number of underscores of str before index j.
underscores_before(str, j) == Cardinality({k \in 1..(j - 1) : str[k] = "_"})

\* The character that str[j] becomes: lower case in the first segment, upper
\* case at the start of a later segment, lower case elsewhere.
camel_char(str, j) ==
    IF underscores_before(str, j) = 0 THEN LowerChar(str[j])
    ELSE IF str[j - 1] = "_" THEN UpperChar(str[j])
    ELSE LowerChar(str[j])

\* C14: snake2camel(s) drops the underscores of s, lowercases the first
\* segment and capitalizes every later one (first character upper case, the
\* rest lower case); to_name becomes toName.
C14_SnakeToCamel ==
    camel_pc = "done" =>
        /\ Len(camel_ret) = Cardinality({j \in 1..Len(camel_s) : camel_s[j] # "_"})
        /\ \A j \in 1..Len(camel_s) :
              camel_s[j] # "_" =>
                  camel_ret[j - underscores_before(camel_s, j)] = camel_char(camel_s, j)
        /\ camel_s = <<"t","o","_","n","a","m","e">> => camel_ret = <<"t","o","N","a","m","e">>

\* An identifier of three segments in mixed case.
C14_ThreeSegments ==
    /\ camel_pc = "done"
    /\ camel_s = <<"f","i","l","l","C","o","l","o","r","_","N","A","M","E","_","t","o">>
    /\ camel_ret = <<"f","i","l","l","c","o","l","o","r","N","a","m","e","T","o">>

(***************************************************************************)
(* Properties of optionality, types and defaults, checked under SpecArgs.  *)
(***************************************************************************)
\* The type of a rendered line: the text between the first ": " and the
\* " = Field(" that follows it (names and types contain no ":" and no "=").
rendered_type(line) ==
    SubSeq(line, find_char(line, ":", 1) + 2, find_char(line, "=", 1) - 2)

\* The default expression of a rendered line: the text between "Field(" and
\* the "," that ends it (a default contains no ",").
rendered_default(line) ==
    SubSeq(line, find_char(line, "=", 1) + 8,
           find_char(line, ",", find_char(line, "=", 1)) - 1)

\* C15: a parameter is optional exactly when its default slot captured a
\* literal containing "=", which is exactly when the slot is not empty; with
\* an empty slot the default resolves to the required sentinel ... (the field
\* is then not optional), and to None only for an optional field.
C15_OptionalIffDefaultSlot ==
    args_pc = "done" =>
        \A i \in 1..Len(args) :
            /\ ("=" \in Range(args[i][3])) <=> (args[i][3] # <<>>)
            /\ str_startswith(rendered_type(str_args[i]), <<"O","p","t","i","o","n","a","l","[">>) <=> (args[i][3] # <<>>)
            /\ args[i][3] = <<>> =>
                  /\ arg_default_of(args[i]) = <<".",".",".">>
                  /\ str_strip_chars(rendered_default(str_args[i]), {"\""}) = <<".",".",".">>
            /\ arg_default_of(args[i]) = <<"N","o","n","e">> =>
                  str_startswith(rendered_type(str_args[i]), <<"O","p","t","i","o","n","a","l","[">>)

\* A required and an optional parameter of the same type.
C15_RequiredAndOptional ==
    /\ args_pc = "done"
    /\ Len(args) = 2
    /\ args[1] = <<<<"n","u","m","b","e","r">>, <<"x">>, <<>>, <<" ","-"," ","S","o","m","e"," ","\"","x","\"">>>>
    /\ args[2] = <<<<"n","u","m","b","e","r">>, <<"x">>, <<"=","1">>, <<" ","-"," ","S","o","m","e"," ","\"","x","\"">>>>
    /\ str_args[1] = <<" "," "," "," ","x",":"," ","i","n","t"," ","="," ","F","i","e","l","d","(",".",".",".",","," ","d","e","s","c","r","i","p","t","i","o","n","=","\"","S","o","m","e"," ","'","x","'",".","\"",")">>
    /\ str_args[2] = <<" "," "," "," ","x",":"," ","O","p","t","i","o","n","a","l","[","i","n","t","]"," ","="," ","F","i","e","l","d","(","1",","," ","d","e","s","c","r","i","p","t","i","o","n","=","\"","S","o","m","e"," ","'","x","'",".","\"",")">>

\* The primitive vocabulary.
primitive(t) ==
    CASE t = <<"s","t","r","i","n","g">> -> <<"s","t","r">>
      [] t = <<"n","u","m","b","e","r">> -> <<"i","n","t">>
      [] t = <<"f","l","o","a","t">> -> <<"f","l","o","a","t">>
      [] t = <<"b","o","o","l","e","a","n">> -> <<"b","o","o","l">>
      [] t = <<"a","r","r","a","y">> -> <<"l","i","s","t">>
      [] t = <<"o","b","j","e","c","t">> -> <<"d","i","c","t">>
      [] t = <<"f","u","n","c","t","i","o","n">> -> <<"C","a","l","l","a","b","l","e">>
      [] t = <<"n","u","l","l">> -> <<"N","o","n","e">>

primitives ==
    { <<"s","t","r","i","n","g">>, <<"n","u","m","b","e","r">>, <<"f","l","o","a","t">>, <<"b","o","o","l","e","a","n">>, <<"a","r","r","a","y">>, <<"o","b","j","e","c","t">>,
      <<"f","u","n","c","t","i","o","n">>, <<"n","u","l","l">> }

\* The captured tuples whose type members are all in the vocabulary.
known_args ==
    { a \in ArgTuples :
        \A k \in 1..Len(type_members(a)) : type_members(a)[k] \in primitives }

\* The type the claim expects for each of them.
expected_type ==
    [a \in known_args |->
        (IF a[3] # <<>> THEN <<"O","p","t","i","o","n","a","l","[">> ELSE <<>>)
        \o str_join(<<"|">>, [k \in 1..Len(type_members(a)) |-> primitive(type_members(a)[k])])
        \o (IF a[3] # <<>> THEN <<"]">> ELSE <<>>)]

\* C16: when every member is in the vocabulary, the type is the members mapped
\* through it, joined with "|" in their order, and wrapped as Optional[...]
\* exactly when the field is optional.
C16_KnownTypesMapped ==
    args_pc = "done" =>
        \A i \in 1..Len(args) :
            args[i] \in known_args => rendered_type(str_args[i]) = expected_type[args[i]]

\* Five members of the vocabulary in one optional type, and a required union.
C16_UnionMapped ==
    /\ args_pc = "done"
    /\ Len(args) = 2
    /\ args[1][1] = <<"f","l","o","a","t","|","a","r","r","a","y","|","o","b","j","e","c","t","|","f","u","n","c","t","i","o","n","|","n","u","l","l">>
    /\ args[1][3] = <<"=","1">>
    /\ rendered_type(str_args[1]) = <<"O","p","t","i","o","n","a","l","[","f","l","o","a","t","|","l","i","s","t","|","d","i","c","t","|","C","a","l","l","a","b","l","e","|","N","o","n","e","]">>
    /\ args[2][1] = <<"s","t","r","i","n","g","|","n","u","m","b","e","r">>
    /\ args[2][3] = <<>>
    /\ rendered_type(str_args[2]) = <<"s","t","r","|","i","n","t">>

\* The tuples of known type outside the boolean coercion, and the default
\* expression the claim expects for each: quoted for an optional str unless a
\* placeholder, the raw text otherwise.
uncoerced_args ==
    { a \in known_args : ~(type_members(a) = <<<<"b","o","o","l","e","a","n">>>> /\ a[3] # <<>>) }

expected_default ==
    [a \in uncoerced_args |->
        IF type_members(a) = <<<<"s","t","r","i","n","g">>>> /\ a[3] # <<>>
           /\ default_text(a) \notin {<<".",".",".">>, <<"N","o","n","e">>}
        THEN <<"\"">> \o default_text(a) \o <<"\"">>
        ELSE default_text(a)]

\* C17: the default of an optional parameter of type str is rendered in double
\* quotes, unless it is one of the placeholders ... and None, which stay bare;
\* the default of any other parameter whose members are all in the vocabulary
\* is the raw text of the literal, the boolean coercion aside.
C17_TextDefaultQuoted ==
    args_pc = "done" =>
        \A i \in 1..Len(args) :
            args[i] \in uncoerced_args =>
                rendered_default(str_args[i]) = expected_default[args[i]]

\* A quoted text default, a bare placeholder and a raw number.
C17_QuotedBareRaw ==
    /\ args_pc = "done"
    /\ Len(args) = 2
    /\ args[1] = <<<<"s","t","r","i","n","g">>, <<"x">>, <<"=","t","o","p">>, <<" ","-"," ","S","o","m","e"," ","\"","x","\"">>>>
    /\ rendered_default(str_args[1]) = <<"\"","t","o","p","\"">>
    /\ args[2] = <<<<"s","t","r","i","n","g">>, <<"x">>, <<"=",".",".",".">>, <<" ","-"," ","S","o","m","e"," ","\"","x","\"">>>>
    /\ rendered_default(str_args[2]) = <<".",".",".">>

(***************************************************************************)
(* Properties of titles and category keys, checked under SpecMain.         *)
(***************************************************************************)
\* The first comment of a file, as main holds it after lines 161-162.
first_comment(f) == comment_text(str_strip(MULTILINE_COMMENT_search(f.text).group1))

\* The files whose first comment has a matching @param line but neither a
\* title marker nor a description marker.
needs_fallback_title ==
    [f \in SourceFiles |->
        /\ has_param(f)
        /\ ~contains(first_comment(f), <<"@","m","e","t","a","_","t","i","t","l","e">>)
        /\ ~contains(first_comment(f), <<"@","m","e","t","a","_","d","e","s","c","r","i","p","t","i","o","n">>)]

\* The head of the block the claim expects for them: the class line and a
\* docstring whose title is the first line of the comment without "*" and
\* surrounding whitespace.
fallback_head ==
    [f \in SourceFiles |->
        <<"c","l","a","s","s"," ">> \o f.stem \o <<"T","a","g","(","B","a","s","e","M","o","d","e","l",")",":","\n">>
        \o INDENT \o <<"\"","\"","\"","\n">>
        \o INDENT \o str_strip(str_strip_chars(rest_of_line(first_comment(f), 1), {"*"}))
        \o <<"\n">> \o INDENT \o <<"\"","\"","\"","\n">>]

\* C18: a comment with a matching @param line but neither title nor
\* description marker still yields a schema, titled with the first line of the
\* comment.
C18_FallbackTitleEmitted ==
    (main_pc \in {"write", "done"} /\ calls = 1) =>
        \A i \in 1..Len(read_log) :
            needs_fallback_title[read_log[i]] =>
                contains(group_text(tag_dir_of(read_log[i]) \o <<".","p","y">>),
                         fallback_head[read_log[i]])

\* The title of the source: the text after the first @meta_title of the first
\* comment, up to the end of its line, without surrounding whitespace.
source_title(f) ==
    str_strip(rest_of_line(first_comment(f),
                           find_sub(first_comment(f), <<"@","m","e","t","a","_","t","i","t","l","e">>, 1) + 11))

\* The files that yield a block and have a title marker, and the head of the
\* block the claim expects: the title, with a period added only if it ends
\* with none.
has_title ==
    [f \in SourceFiles |->
        schema_block(f).emit /\ contains(first_comment(f), <<"@","m","e","t","a","_","t","i","t","l","e">>)]

titled_head ==
    [f \in SourceFiles |->
        <<"c","l","a","s","s"," ">> \o f.stem \o <<"T","a","g","(","B","a","s","e","M","o","d","e","l",")",":","\n">>
        \o INDENT \o <<"\"","\"","\"","\n">>
        \o INDENT \o source_title(f)
        \o (IF str_endswith(source_title(f), <<".">>) THEN <<>> ELSE <<".">>)
        \o <<"\n">>]

\* C19: the docstring's title is the first @meta_title capture without
\* surrounding whitespace, followed by a period only when it does not already
\* end with one.
C19_TitleEndsWithOnePeriod ==
    (main_pc \in {"write", "done"} /\ calls = 1) =>
        \A i \in 1..Len(read_log) :
            has_title[read_log[i]] =>
                contains(group_text(tag_dir_of(read_log[i]) \o <<".","p","y">>),
                         titled_head[read_log[i]])

\* The class line of the block of a file.
class_line(f) == <<"c","l","a","s","s"," ">> \o f.stem \o <<"T","a","g","(","B","a","s","e","M","o","d","e","l",")",":","\n">>

\* C20 as stated: the category key of a file is the name of its parent
\* directory, or control for a file directly in the tags root, and the group
\* is written to <key>.py.
C20_KeyIsParentName ==
    (main_pc \in {"write", "done"} /\ calls = 1) =>
        \A i \in 1..Len(read_log) :
            block_of[read_log[i]].emit =>
                contains(group_text((IF read_log[i].parent = <<>> THEN <<"c","o","n","t","r","o","l">>
                                     ELSE read_log[i].parent[Len(read_log[i].parent)])
                                    \o <<".","p","y">>),
                         class_line(read_log[i]))

\* C20, amended: the category key of a file is the first directory of its
\* path below the tags root (its parent directory only when the file is not
\* nested deeper), or control for a file directly in the root; groups exist
\* for such keys only, and each is written under the name <key>.py.
C20_KeyIsTopDirectory ==
    (main_pc \in {"write", "done"} /\ calls = 1) =>
        /\ \A i \in 1..Len(read_log) :
              block_of[read_log[i]].emit =>
                  contains(group_text((IF read_log[i].parent = <<>> THEN <<"c","o","n","t","r","o","l">>
                                       ELSE read_log[i].parent[1]) \o <<".","p","y">>),
                           class_line(read_log[i]))
        /\ \A g \in 1..Len(py_files) :
              \E i \in 1..Len(read_log) :
                  /\ block_of[read_log[i]].emit
                  /\ py_files[g][1] = (IF read_log[i].parent = <<>> THEN <<"c","o","n","t","r","o","l">>
                                       ELSE read_log[i].parent[1]) \o <<".","p","y">>
        /\ \A k \in 1..Len(written) : written[k] = py_files[k]
        /\ main_pc = "done" => Len(written) = Len(py_files)

\* A file in the tags root and a file two directories down, both written.
C20_RootAndNested ==
    /\ main_pc = "done"
    /\ calls = 1
    /\ Len(read_log) = 2
    /\ read_log[1].parent = <<>>
    /\ read_log[2].parent = <<<<"o","b","j","e","c","t">>, <<"R","i","c","h","T","e","x","t">>>>
    /\ Len(written) = 2
    /\ written[1][1] = <<"c","o","n","t","r","o","l",".","p","y">>
    /\ contains(written[1][2], <<"c","l","a","s","s"," ","C","h","o","i","c","e","T","a","g","(","B","a","s","e","M","o","d","e","l",")",":","\n">>)
    /\ written[2][1] = <<"o","b","j","e","c","t",".","p","y">>
    /\ contains(written[2][2], <<"c","l","a","s","s"," ","I","m","a","g","e","T","a","g","(","B","a","s","e","M","o","d","e","l",")",":","\n">>)

(***************************************************************************)
(* Claims C21 to C29.                                                      *)
(***************************************************************************)
\* The rule of the documentation for a candidate file, told from its stem and
\* from the directory that holds it.
keep_rule ==
    [f \in SourceFiles |->
        /\ ~contains(f.stem, <<"_","_">>)
        /\ \E d \in DocsStems \ {<<"i","n","d","e","x">>} : str_lower(d) = str_lower(f.stem)
        /\ (str_lower(f.stem) = <<"v","i","e","w">>
              => (f.parent # <<>> /\ f.parent[Len(f.parent)] = <<"v","i","s","u","a","l">>))]

\* C21: the file drawn from the generator is kept exactly when its stem has no
\* "__", its lowercased stem is the lowercased stem of a document other than
\* index, and a view file lies in a directory named visual.  A kept file is
\* read (or the read fails); a file that fails the rule is passed over: it is
\* not read, no group and no written file changes, and the loop goes on.
C21_KeptIffRule ==
    [][(main_pc = "loop" /\ FILES # <<>>)
       => IF keep_rule[Head(FILES)]
          THEN read_log' = Append(read_log, Head(FILES)) \/ main_pc' = "raised"
          ELSE /\ read_log' = read_log
               /\ py_files' = py_files
               /\ written' = written
               /\ main_pc' = "loop"
               /\ FILES' = Tail(FILES)]_vars

\* A run has read visual/View.jsx, the only file of its batch that the rule keeps,
\* and written its schema.
C21_ViewInVisualRead ==
    /\ main_pc = "done"
    /\ calls = 1
    /\ read_log = <<[stem |-> <<"V","i","e","w">>, parent |-> <<<<"v","i","s","u","a","l">>>>, text |-> TextNoTitle]>>
    /\ Len(written) = 1
    /\ written[1][1] = <<"v","i","s","u","a","l",".","p","y">>
    /\ contains(written[1][2], <<"c","l","a","s","s"," ","V","i","e","w","T","a","g","(","B","a","s","e","M","o","d","e","l",")",":">>)

(***************************************************************************)
(* The first documentation comment.                                        *)
(***************************************************************************)
\* The text of a file up to the end of the first closing marker that follows
\* its first opening marker; the whole text when there is no such pair.
text_to_first_close(text) ==
    LET open == find_sub(text, <<"/","*","*">>, 1)
        close == IF open = 0 THEN 0 ELSE find_sub(text, <<"*","/">>, open + 3)
    IN  IF close = 0 THEN text ELSE SubSeq(text, 1, close + 1)

\* The block of a file whose text ends with its first comment.
first_block_schema ==
    [f \in SourceFiles |-> schema_block([f EXCEPT !.text = text_to_first_close(f.text)])]

RECURSIVE first_blocks_of(_, _)
first_blocks_of(files, key) ==
    IF files = <<>> THEN <<>>
    ELSE (IF tag_dir_of(Head(files)) \o <<".","p","y">> = key /\ first_block_schema[Head(files)].emit
          THEN <<first_block_schema[Head(files)].text_out>> ELSE <<>>)
         \o first_blocks_of(Tail(files), key)

\* The first comment of a file has an @param marker.
first_has_param == [f \in SourceFiles |-> contains(text_to_first_close(f.text), <<"@","p","a","r","a","m">>)]

\* C22: only the first /** ... */ of a file, from the first opening marker to
\* the next closing marker, is considered.  Every group is made of the blocks
\* that the files would give if their text ended with that first comment, and
\* a file whose first comment has no @param marker, or that has no comment,
\* has no block in its group, whatever follows the first comment.
C22_OnlyFirstBlock ==
    (main_pc \in {"loop", "write", "done"} /\ calls = 1) =>
        /\ \A g \in 1..Len(py_files) :
              py_files[g][2]
                 = Preamble \o str_join(<<"\n","\n">>, first_blocks_of(read_log, py_files[g][1]))
        /\ \A i \in 1..Len(read_log) :
              count_sub(group_text(tag_dir_of(read_log[i]) \o <<".","p","y">>), class_line(read_log[i]))
                 = Cardinality({j \in same_schema(read_log[i]) :
                                   first_has_param[read_log[j]]
                                   /\ first_block_schema[read_log[j]].emit})

\* A file whose only @param line is in its second comment gave nothing, and a
\* file with two comments gave the block of its first: no title and no
\* parameter of the second comment is in the written file.
C22_LaterBlockIgnored ==
    /\ main_pc = "done"
    /\ calls = 1
    /\ Len(read_log) = 2
    /\ read_log[1] = [stem |-> <<"I","m","a","g","e">>, parent |-> <<<<"v","i","s","u","a","l">>>>, text |-> TextLaterParam]
    /\ read_log[2] = [stem |-> <<"C","h","o","i","c","e">>, parent |-> <<<<"v","i","s","u","a","l">>>>, text |-> TextTwoBlocks]
    /\ Len(written) = 1
    /\ written[1][1] = <<"v","i","s","u","a","l",".","p","y">>
    /\ ~contains(written[1][2], <<"c","l","a","s","s"," ","I","m","a","g","e","T","a","g">>)
    /\ contains(written[1][2], <<"c","l","a","s","s"," ","C","h","o","i","c","e","T","a","g","(","B","a","s","e","M","o","d","e","l",")",":">>)
    /\ contains(written[1][2], <<" "," "," "," ","v","a","l","u","e",":"," ","s","t","r"," ","="," ","F","i","e","l","d","(">>)
    /\ ~contains(written[1][2], <<"p","o","s","i","t","i","o","n">>)
    /\ ~contains(written[1][2], <<"I","m","a","g","e"," ","T","a","g",".">>)

(***************************************************************************)
(* Identifier and description of a rendered line, checked under SpecArgs.  *)
(***************************************************************************)
\* The identifier of a rendered line: the text between the indent and the
\* first ":".
rendered_name(line) == SubSeq(line, Len(INDENT) + 1, find_char(line, ":", 1) - 1)

\* The index of the "," that ends the default expression of a rendered line.
default_end(line) == find_char(line, ",", find_char(line, "=", 1))

\* The description of a rendered line whose default expression ends at index
\* e: the text between description=" and the closing ") of the line.
desc_from(line, e) == SubSeq(line, e + 15, Len(line) - 2)

rendered_desc(line) == desc_from(line, default_end(line))

\* The number of positions of str that hold one of chars.
count_chars(str, chars) == Cardinality({j \in 1..Len(str) : str[j] \in chars})

\* C23: in every line rendered by make_args the identifier is the trimmed
\* name and is not empty; the description has no double quote (a single quote
\* stands where the source had a double quote), ends with a period, and is
\* "." alone when the source description is empty.
C23_NameAndDescription ==
    args_pc = "done" =>
        \A i \in 1..Len(args) :
            /\ rendered_name(str_args[i]) # <<>>
            /\ rendered_name(str_args[i]) = str_strip(args[i][2])
            /\ SubSeq(str_args[i], Len(str_args[i]) - 1, Len(str_args[i])) = <<"\"",")">>
            /\ \A e \in {default_end(str_args[i])} :
                  /\ SubSeq(str_args[i], e, e + 14) = <<","," ","d","e","s","c","r","i","p","t","i","o","n","=","\"">>
                  /\ \A d \in {desc_from(str_args[i], e)} :
                        /\ "\"" \notin Range(d)
                        /\ count_chars(d, {"'"}) = count_chars(args[i][4], {"'", "\""})
                        /\ d # <<>>
                        /\ d[Len(d)] = "."
                        /\ (str_strip(args[i][4]) = <<>> => d = <<".">>)

\* An entry without description and an entry whose description quotes a word.
C23_EmptyAndQuoted ==
    /\ args_pc = "done"
    /\ Len(args) = 2
    /\ args[1] = <<<<"b","o","o","l","e","a","n">>, <<"s","e","l","e","c","t","e","d">>, <<"=","t","r","u","e">>, <<>>>>
    /\ args[2] = <<<<"s","t","r","i","n","g">>, <<"x">>, <<>>, <<" ","-"," ","S","o","m","e"," ","\"","x","\"">>>>
    /\ rendered_desc(str_args[1]) = <<".">>
    /\ rendered_desc(str_args[2]) = <<"S","o","m","e"," ","'","x","'",".">>
    /\ rendered_name(str_args[1]) = <<"s","e","l","e","c","t","e","d">>

(***************************************************************************)
(* The shape of an emitted block, checked under SpecMain.                  *)
(***************************************************************************)
\* The lines of the block of a file.
block_lines == [f \in SourceFiles |-> str_split(block_of[f].text_out, "\n")]

\* The form of the docstring of the block of a file: "single" when the line
\* after the title closes the docstring, "double" when a blank line and one
\* more line come before the closing line.
docstring_form ==
    [f \in SourceFiles |->
        IF ~block_of[f].emit \/ Len(block_lines[f]) < 4
           \/ block_lines[f][2] # INDENT \o <<"\"","\"","\"">> THEN "none"
        ELSE IF block_lines[f][4] = INDENT \o <<"\"","\"","\"">> THEN "single"
        ELSE IF Len(block_lines[f]) >= 6 /\ block_lines[f][4] = <<>>
                /\ block_lines[f][6] = INDENT \o <<"\"","\"","\"">> THEN "double"
        ELSE "other"]

\* The form the documentation gives: two paragraphs when the first comment has
\* both a title and a description, one paragraph otherwise.
documented_form ==
    [f \in SourceFiles |->
        IF contains(first_comment(f), <<"@","m","e","t","a","_","t","i","t","l","e">>)
           /\ contains(first_comment(f), <<"@","m","e","t","a","_","d","e","s","c","r","i","p","t","i","o","n">>)
        THEN "double" ELSE "single"]

\* The lines of the block that follow the docstring, the empty piece after the
\* last line break left out.
field_lines ==
    [f \in SourceFiles |->
        SubSeq(block_lines[f], (IF docstring_form[f] = "double" THEN 7 ELSE 5),
               Len(block_lines[f]) - 1)]

\* C24 as stated: every emitted block is the class line of the stem, a
\* docstring in two-paragraph form when the comment has a title and a
\* description and in single-paragraph form otherwise, and then one line
\* "<identifier>: <type> = Field(<default>, description="...")" per field,
\* indented by four spaces.
C24_BlockShape ==
    (main_pc \in {"write", "done"} /\ calls = 1) =>
        \A i \in 1..Len(read_log) :
            block_of[read_log[i]].emit =>
                /\ contains(group_text(tag_dir_of(read_log[i]) \o <<".","p","y">>),
                            block_of[read_log[i]].text_out)
                /\ block_lines[read_log[i]][1] \o <<"\n">> = class_line(read_log[i])
                /\ docstring_form[read_log[i]] = documented_form[read_log[i]]
                /\ field_lines[read_log[i]] # <<>>
                /\ \A k \in 1..Len(field_lines[read_log[i]]) :
                      /\ str_startswith(field_lines[read_log[i]][k], INDENT)
                      /\ contains(field_lines[read_log[i]][k], <<" ","="," ","F","i","e","l","d","(">>)
                      /\ str_endswith(field_lines[read_log[i]][k], <<"\"",")">>)

(***************************************************************************)
(* The order of reading and writing in one call of main.                   *)
(***************************************************************************)
\* The category keys of the files read so far that gave a schema.
keys_with_schema ==
    {tag_dir_of(read_log[i]) \o <<".","p","y">> : i \in {j \in 1..Len(read_log) : block_of[read_log[j]].emit}}

\* C25: a file is written only in the writing loop, which starts when the
\* generator has no file left, so every kept file has been read and processed
\* before the first write; a call that ends with a failed read has written
\* nothing; and when main returns it has written one file for each category
\* key that got a schema and none for any other.
C25_WritesAfterAllReads ==
    /\ [][written' # written
          => (main_pc = "write" /\ FILES = <<>> /\ Len(written') = Len(written) + 1)]_vars
    /\ [](main_pc = "raised" => written = <<>>)
    /\ []((main_pc = "done" /\ calls = 1) =>
            /\ {written[i][1] : i \in 1..Len(written)} = keys_with_schema
            /\ Len(written) = Cardinality(keys_with_schema))

\* Two files of two categories were read, one of them without schema: one
\* file has been written, the one of the category with a schema.
C25_OneFilePerKeyWithSchema ==
    /\ main_pc = "done"
    /\ calls = 1
    /\ Len(read_log) = 2
    /\ read_log[1] = [stem |-> <<"T","e","x","t">>, parent |-> <<<<"o","b","j","e","c","t">>>>, text |-> TextNoParam]
    /\ read_log[2] = [stem |-> <<"C","h","o","i","c","e">>, parent |-> <<<<"c","o","n","t","r","o","l">>>>, text |-> TextFull]
    /\ Len(written) = 1
    /\ written[1][1] = <<"c","o","n","t","r","o","l",".","p","y">>

(***************************************************************************)
(* Independence of a block from the files processed before it.             *)
(***************************************************************************)
\* C26: the pass over a file, whatever the names of main's frame hold from the
\* files processed before it, adds to the groups what the pass over that file
\* adds when it is the first of its call: the block of the file alone under
\* the key of the file, or nothing.
C26_BlockOfFileAlone ==
    [][read_log' # read_log
       => py_files' = IF block_of[Head(FILES)].emit
                      THEN py_files_add(py_files, tag_dir_of(Head(FILES)) \o <<".","p","y">>,
                                        block_of[Head(FILES)].text_out)
                      ELSE py_files]_vars

\* A file with a title was processed and then a file without title of the
\* same category: the title of the first is in the written text once, in the
\* first block, and the frame no longer holds it.
C26_TitleNotCarriedOver ==
    /\ main_pc = "done"
    /\ calls = 1
    /\ Len(read_log) = 2
    /\ read_log[1] = [stem |-> <<"C","h","o","i","c","e">>, parent |-> <<<<"c","o","n","t","r","o","l">>>>, text |-> TextFull]
    /\ read_log[2] = [stem |-> <<"C","h","o","i","c","e">>, parent |-> <<>>, text |-> TextNoTitle]
    /\ Len(written) = 1
    /\ count_sub(written[1][2], <<"c","l","a","s","s"," ","C","h","o","i","c","e","T","a","g","(","B","a","s","e","M","o","d","e","l",")",":">>) = 2
    /\ count_sub(written[1][2], <<"C","h","o","i","c","e"," ","T","a","g",".">>) = 1
    /\ locals.meta_title = PyNone

falsy_non_bool(v) ==
    \/ v.t = "None"
    \/ (v.t \in {"int", "float"} /\ v.v = 0)
    \/ (v.t \in {"str", "list", "dict"} /\ v.v = <<>>)

\* The entries of model_dict up to i that are neither ignored nor falsy
\* non-booleans.
kept_up_to(i) ==
    {j \in 1..i : ~falsy_non_bool(model_dict[j][2]) /\ model_dict[j][1] \notin ignore}

\* C28: into_xml emits no attribute for a falsy value that is not a boolean: a
\* field whose value is 0, 0.0, an empty list or an empty dict is left out as
\* None and "" are, and the output has one attribute for each other field that
\* is not ignored; a number other than zero is emitted as its string form.
C28_FalsyNonBooleanOmitted ==
    xml_pc = "into_xml_done" =>
        /\ Len(res) = Cardinality(kept_up_to(Len(model_dict)))
        /\ \A i \in kept_up_to(Len(model_dict)) :
              /\ str_startswith(res[Cardinality(kept_up_to(i))],
                                snake2camel(model_dict[i][1]) \o <<"=","\"">>)
              /\ model_dict[i][2].t \in {"int", "float"} =>
                    res[Cardinality(kept_up_to(i))]
                       = snake2camel(model_dict[i][1]) \o <<"=","\"">>
                         \o py_str(model_dict[i][2]) \o <<"\"">>

\* A mapping with 0.0, an empty list and a name gives the name alone.
C28_ZeroAndEmptyListDropped ==
    /\ xml_pc = "into_xml_done"
    /\ model_dict = << <<<<"o","p","a","c","i","t","y">>, PyFloat(0)>>, <<<<"s","m","a","r","t">>, PyList(<<>>)>>,
                       <<<<"n","a","m","e">>, PyStr(<<"r","e","c","t","1">>)>> >>
    /\ ignore = {}
    /\ res = << <<"n","a","m","e","=","\"","r","e","c","t","1","\"">> >>

(***************************************************************************)
(* Calls of main after the first, checked under SpecMain.                  *)
(***************************************************************************)
\* C29 as stated: whenever main is called a second time, the call processes no
\* source file and writes no file.
C29_SecondCallDoesNothing ==
    [][calls >= 2 => (read_log' = read_log /\ written' = written)]_vars

\* C29, for a call that follows a call that returned: FILES is a generator,
\* which a returned call has exhausted, so the new call starts with no file to
\* draw and an empty py_files, and from there on no file is read, no group is
\* made and nothing is written: what the earlier call wrote stays as it is.  A
\* call that follows a failed read starts with the files the generator has
\* not yielded yet.
C29_CallAfterReturnDoesNothing ==
    /\ [][(main_pc = "done" /\ main_pc' = "loop") => (FILES' = <<>> /\ py_files' = <<>>)]_vars
    /\ [][(FILES = <<>> /\ py_files = <<>>)
          => (/\ FILES' = <<>>
              /\ py_files' = <<>>
              /\ read_log' = read_log
              /\ written' = written)]_vars
    /\ [][(main_pc = "raised" /\ main_pc' = "loop") => FILES' = FILES]_vars

\* Main has returned twice: the two files read and the two files written are
\* those of the first call, and the second call gathered no group.
C29_SecondCallReturned ==
    /\ main_pc = "done"
    /\ calls = 2
    /\ Len(read_log) = 2
    /\ read_log[1] = [stem |-> <<"C","h","o","i","c","e">>, parent |-> <<<<"c","o","n","t","r","o","l">>>>, text |-> TextFull]
    /\ read_log[2] = [stem |-> <<"I","m","a","g","e">>, parent |-> <<<<"o","b","j","e","c","t">>, <<"R","i","c","h","T","e","x","t">>>>,
                      text |-> TextTitleDot]
    /\ Len(written) = 2
    /\ written[1][1] = <<"c","o","n","t","r","o","l",".","p","y">>
    /\ written[2][1] = <<"o","b","j","e","c","t",".","p","y">>
    /\ py_files = <<>>

====
